---------------------------- MODULE Spec2Model ----------------------------
(***************************************************************************)
(* A model of quiz_gen.parsers.html.eur_lex_parser.EURLexParser: the       *)
(* parser walks a markup tree (the soup) in five phases and accumulates a  *)
(* list of chunks and a nested table of contents.                          *)
(*                                                                         *)
(* Representation.                                                         *)
(*  - The soup is a sequence of nodes in document order (preorder); each   *)
(*    node records its tag, its class, its id, the text it holds directly  *)
(*    and the index of its parent (0 for the root).  Node 1 is the         *)
(*    document itself.                                                     *)
(*  - A text is a sequence of tokens: words, the blank " " and, in joined  *)
(*    contents, the separators "\n" and "\n\n".  An id is a sequence of    *)
(*    components: "cpt_III.sct_1" is <<"cpt", "III", "sct", "1">>.         *)
(*  - None is the token sequence NoneVal.                                  *)
(*                                                                         *)
(* The module also models quiz_gen.cli.parse_document, which reads a       *)
(* document, parses it and saves the results, and the validation node of   *)
(* quiz_gen.agents.workflow.QuizGenerationWorkflow.  Each has its own      *)
(* variables and its own specification.                                    *)
(***************************************************************************)
EXTENDS Integers, Sequences, FiniteSets, TLC

VARIABLES
    html_content,       \* the markup the instance was constructed with
    soup,               \* self.soup: the tree being walked (mutated by decompose)
    chunks,             \* self.chunks
    toc,                \* self.toc
    current_hierarchy,  \* self.current_hierarchy
    regulation_title,   \* self.regulation_title
    pc,                 \* the position inside parse()
    annexes,            \* _parse_annexes' list of containers
    annex_i,            \* the index of the next container in _parse_annexes' loop
    calls,              \* how many parse() calls have returned
    chunks_file,        \* what save_chunks wrote last
    \* cli.parse_document
    cli_pc,             \* the position inside parse_document
    args,               \* input_source (a URL or a file path), no_save, print_toc
    path_exists,        \* whether a file exists at the input path
    source_text,        \* the markup the file or the URL holds ('' when empty)
    parsed,             \* the chunks and TOC parser.parse() returned
    files,              \* what parse_document created in the output directory
    raised,             \* whether an exception was raised inside the try block
    rc,                 \* the value parse_document returned
    \* QuizGenerationWorkflow
    state,              \* the QuizGenerationState handed from node to node
    validations,        \* how many times _validate_questions has run
    graph_pc,           \* the node(s) of the graph that run in the next step
    runs,               \* how many times each node of the graph has run
    heap,               \* the question dicts, by name (dicts are shared by
                        \* reference between the state's keys and lists)
    writes              \* what the tasks of the running step have returned

parser_vars == <<html_content, soup, chunks, toc, current_hierarchy,
                 regulation_title, pc, annexes, annex_i, calls, chunks_file>>
cli_vars == <<cli_pc, args, path_exists, source_text, parsed, files, raised, rc>>
workflow_vars == <<state, validations, graph_pc, runs, heap, writes>>

vars == <<parser_vars, cli_vars, workflow_vars>>

(***************************************************************************)
(* Bounds of the model.                                                    *)
(***************************************************************************)
MaxCit == 2          \* citation elements of a document
MaxRct == 2          \* recital elements of a document
MaxSect == 2         \* section containers of the varied chapter
MaxFlatArt == 2      \* articles of a document without chapters
MaxPlainChap == 1    \* well-formed chapters after the varied one
MaxHead == 2         \* oj-ti-grseq-1 headings of the varied annex
MaxParseCalls == 2   \* parse() calls on one instance
MaxValidations == 2  \* runs of _validate_questions on one state
MaxNodeRuns == 2     \* runs of one node of the graph in one run()

(***************************************************************************)
(* Texts.                                                                  *)
(***************************************************************************)
WS == " "
NL == "\n"
NL2 == "\n\n"
NoneVal == <<"#None">>

Seq1(n) == [i \in 1..n |-> i]

RECURSIVE Concat(_)
Concat(ss) ==
    IF ss = <<>> THEN <<>> ELSE Head(ss) \o Concat(Tail(ss))

RECURSIVE Join(_, _)
Join(sep, ss) ==
    IF ss = <<>> THEN <<>>
    ELSE IF Len(ss) = 1 THEN Head(ss)
    ELSE Head(ss) \o sep \o Join(sep, Tail(ss))

\* re.sub(r'\s+', ' ', text): every run of whitespace becomes one blank
CollapseWS(t) ==
    LET F[i \in 0..Len(t)] ==
            IF i = 0 THEN <<>>
            ELSE IF t[i] \in {WS, NL, NL2}
                 THEN IF i > 1 /\ t[i-1] \in {WS, NL, NL2}
                      THEN F[i-1] ELSE Append(F[i-1], WS)
                 ELSE Append(F[i-1], t[i])
    IN  F[Len(t)]

\* str.strip() of a text whose whitespace runs are single blanks
Strip(t) ==
    LET a == IF t # <<>> /\ Head(t) = WS THEN Tail(t) ELSE t
    IN  IF a # <<>> /\ a[Len(a)] = WS THEN SubSeq(a, 1, Len(a) - 1) ELSE a

_clean_text(t) == Strip(CollapseWS(t))

(***************************************************************************)
(* The markup tree.                                                        *)
(***************************************************************************)
Node(tag, cls, id, text) ==
    [tag |-> tag, cls |-> cls, id |-> id, text |-> text, parent |-> 0]

Place(frag, off, par) ==
    [i \in 1..Len(frag) |->
        [frag[i] EXCEPT !.parent = IF @ = 0 THEN par ELSE @ + off]]

RECURSIVE Kids(_, _)
Kids(kids, off) ==
    IF kids = <<>> THEN <<>>
    ELSE Place(Head(kids), off, 1) \o Kids(Tail(kids), off + Len(Head(kids)))

\* an element with its text and its child elements, as a tree fragment
El(tag, cls, id, text, kids) ==
    <<Node(tag, cls, id, text)>> \o Kids(kids, 1)

RECURSIVE IsAncestor(_, _, _)
IsAncestor(doc, a, d) ==
    /\ doc[d].parent >= a        \* a parent precedes its children
    /\ doc[d].parent # 0
    /\ \/ doc[d].parent = a
       \/ IsAncestor(doc, a, doc[d].parent)

\* the indices of set M, in document order
InOrder(doc, M) == SelectSeq(Seq1(Len(doc)), LAMBDA i : i \in M)

\* element.find_all(...): the descendants of e among M, in document order
find_all(doc, e, M) ==
    InOrder(doc, {i \in M : IsAncestor(doc, e, i)})

\* element.find_all(..., recursive=False): the children of e among M
find_all_direct(doc, e, M) ==
    InOrder(doc, {i \in M : doc[i].parent = e})

\* element.find(...): the first match, or 0 for None
find(doc, e, M) ==
    LET r == find_all(doc, e, M) IN IF r = <<>> THEN 0 ELSE r[1]

\* element.children
children(doc, e) ==
    InOrder(doc, {i \in DOMAIN doc : doc[i].parent = e /\ doc[i].tag # "#decomposed"})

\* element.get_text(): the text strings of e and its descendants, concatenated
get_text(doc, e) ==
    Concat([k \in 1..Len(doc) |->
              IF k = e \/ IsAncestor(doc, e, k) THEN doc[k].text ELSE <<>>])

\* self._clean_text(p.get_text()) if p else ''
TextOf(doc, p) == IF p = 0 THEN <<>> ELSE _clean_text(get_text(doc, p))

\* the matchers of find/find_all: tag, class_ and id
ByTag(doc, tag) == {i \in DOMAIN doc : doc[i].tag = tag}
ByClass(doc, tag, cls) ==
    {i \in DOMAIN doc : doc[i].tag = tag /\ doc[i].cls = cls}
IdStarts(doc, prefix) ==
    {i \in DOMAIN doc : doc[i].id # <<>> /\ doc[i].id[1] = prefix}

\* element.decompose() for every element of S: the elements leave the tree
Decompose(doc, S) ==
    [k \in 1..Len(doc) |->
        IF k \in S \/ \E s \in S : IsAncestor(doc, s, k)
        THEN [doc[k] EXCEPT !.tag = "#decomposed", !.cls = "",
                            !.id = <<>>, !.text = <<>>]
        ELSE doc[k]]


(***************************************************************************)
(* Token classes: what the regular expressions of the parser accept.       *)
(***************************************************************************)
DigitToks == {"1", "2", "3", "4", "5", "6", "7", "8", "9", "14"}   \* \d+
RomanToks == {"I", "II", "III", "IV"}                \* [IVXLCDM]+
LowerToks == {"a", "b", "i", "ii"}                   \* [a-z]+
ArticleNumToks == DigitToks \cup {"14a"}             \* \d+[a-z]*

\* id=re.compile(r'^<prefix>_\d+')
IdPrefixDigits(doc, prefix) ==
    {i \in DOMAIN doc : /\ Len(doc[i].id) >= 2
                        /\ doc[i].id[1] = prefix
                        /\ doc[i].id[2] \in DigitToks}

\* find(..., 'div', class_='eli-subdivision', id=re.compile(r'^<prefix>_\d+'))
Subdivisions(doc, prefix) ==
    ByClass(doc, "div", "eli-subdivision") \cap IdPrefixDigits(doc, prefix)

(***************************************************************************)
(* RegulationChunk and the table of contents.                              *)
(***************************************************************************)
RegulationChunk(section_type, number, title, content, hierarchy_path, metadata) ==
    [section_type |-> section_type, number |-> number, title |-> title,
     content |-> content, hierarchy_path |-> hierarchy_path,
     metadata |-> metadata]

\* [self.regulation_title, ...] if self.regulation_title else [...]
WithRoot(reg_title, path) ==
    IF reg_title # <<>> THEN <<reg_title>> \o path ELSE path

EmptyToc == [title |-> <<>>, sections |-> <<>>]

(***************************************************************************)
(* _parse_title                                                            *)
(***************************************************************************)

\* faulty variant: the title chunk built without its hierarchy_path argument
TitleChunk_NoPath(doc, title_div, main_title, full_content) ==
    RegulationChunk("title", NoneVal, main_title, full_content,
                    <<>>, [id |-> doc[title_div].id])

TitleChunk(doc, title_div, main_title, full_content) ==
    RegulationChunk("title", NoneVal, main_title, full_content,
                    <<main_title>>, [id |-> doc[title_div].id])


\* faulty variant: the title chunk guarded by "if main_title" instead of "if title_parts"
_parse_title_NonBlank(doc, cs, tc, reg) ==
    LET title_div == find(doc, 1, ByClass(doc, "div", "eli-main-title"))
        title_paragraphs ==
            IF title_div = 0 THEN <<>>
            ELSE find_all(doc, title_div, ByClass(doc, "p", "oj-doc-ti"))
        title_parts == [k \in 1..Len(title_paragraphs) |->
                           _clean_text(get_text(doc, title_paragraphs[k]))]
    IN  IF title_div # 0 /\ title_parts # <<>> /\ title_parts[1] # <<>>
        THEN [chunks |-> Append(cs, TitleChunk(doc, title_div, title_parts[1],
                                               Join(<<NL2>>, title_parts))),
              toc |-> [tc EXCEPT !.title = title_parts[1]],
              regulation_title |-> title_parts[1]]
        ELSE [chunks |-> cs, toc |-> tc, regulation_title |-> reg]

_parse_title(doc, cs, tc, reg) ==
    LET title_div == find(doc, 1, ByClass(doc, "div", "eli-main-title"))
        title_paragraphs ==
            IF title_div = 0 THEN <<>>
            ELSE find_all(doc, title_div, ByClass(doc, "p", "oj-doc-ti"))
        title_parts == [k \in 1..Len(title_paragraphs) |->
                           _clean_text(get_text(doc, title_paragraphs[k]))]
    IN  IF title_div # 0 /\ title_parts # <<>>
        THEN [chunks |-> Append(cs, TitleChunk(doc, title_div, title_parts[1],
                                               Join(<<NL2>>, title_parts))),
              toc |-> [tc EXCEPT !.title = title_parts[1]],
              regulation_title |-> title_parts[1]]
        ELSE [chunks |-> cs, toc |-> tc, regulation_title |-> reg]

(***************************************************************************)
(* _parse_preamble                                                         *)
(***************************************************************************)
\* the body paragraphs of the preamble container before its first citation
PreambleContentParts(doc, preamble_div) ==
    LET kids == children(doc, preamble_div)
        IsCit(c) == doc[c].id # <<>> /\ doc[c].id[1] = "cit"
        before == {k \in 1..Len(kids) : \A j \in 1..k : ~IsCit(kids[j])}
        texts == [k \in 1..Len(kids) |->
                    IF k \in before /\ doc[kids[k]].tag = "p"
                                    /\ doc[kids[k]].cls = "oj-normal"
                    THEN _clean_text(get_text(doc, kids[k])) ELSE <<>>]
    IN  SelectSeq(texts, LAMBDA t : t # <<>>)

PreambleChunk(doc, preamble_div, parts, reg) ==
    RegulationChunk("preamble", NoneVal, <<"Preamble">>, Join(<<NL2>>, parts),
                    WithRoot(reg, << <<"Preamble">> >>),
                    [id |-> doc[preamble_div].id])


\* faulty variant: every citation with a paragraph counts, also when it is blank
CitationsWithText_AnyPara(doc) ==
    LET citations == find_all(doc, 1, Subdivisions(doc, "cit"))
    IN  SelectSeq(citations,
                  LAMBDA c : find(doc, c, ByClass(doc, "p", "oj-normal")) # 0)

\* the citation elements that hold a non-empty oj-normal paragraph
CitationsWithText(doc) ==
    LET citations == find_all(doc, 1, Subdivisions(doc, "cit"))
        para(c) == find(doc, c, ByClass(doc, "p", "oj-normal"))
    IN  SelectSeq(citations,
                  LAMBDA c : /\ para(c) # 0
                             /\ _clean_text(get_text(doc, para(c))) # <<>>)

CitationChunk(citation_parts, citation_ids, reg) ==
    RegulationChunk("citation", NoneVal, <<"Citation">>,
                    Join(<<NL2>>, citation_parts),
                    WithRoot(reg, << <<"Preamble">>, <<"Citation">> >>),
                    [id |-> IF citation_ids # <<>> THEN citation_ids[1]
                            ELSE <<"cit", "1">>,
                     citation_ids |-> citation_ids])

\* re.match(r'^\((\d+)\)$', num_text)
RecitalMatch(num_text) ==
    /\ Len(num_text) = 3
    /\ num_text[1] = "(" /\ num_text[2] \in DigitToks /\ num_text[3] = ")"

RecitalTitle(num) == <<"Recital", WS, num>>

RecitalChunk(doc, rct, num, content, reg) ==
    RegulationChunk("recital", <<num>>, RecitalTitle(num), content,
                    WithRoot(reg, << <<"Preamble">>, RecitalTitle(num) >>),
                    [id |-> doc[rct].id])

\* row.find_all('td') of a recital row
RecitalCells(doc, row) == find_all(doc, row, ByTag(doc, "td"))

\* the rows of one recital element that produce a chunk: two cells, the
\* first of which reads "(N)"
RecitalRows(doc, rct) ==
    LET table == find(doc, rct, ByTag(doc, "table"))
        rows == IF table = 0 THEN <<>>
                ELSE find_all(doc, table, ByTag(doc, "tr"))
    IN  SelectSeq(rows,
            LAMBDA row :
                LET cells == RecitalCells(doc, row)
                IN  /\ Len(cells) = 2
                    /\ RecitalMatch(_clean_text(get_text(doc, cells[1]))))

\* the chunks of one recital element
RecitalChunksOf(doc, rct, reg) ==
    LET rows == RecitalRows(doc, rct)
    IN  [k \in 1..Len(rows) |->
            LET cells == RecitalCells(doc, rows[k])
            IN  RecitalChunk(doc, rct,
                             _clean_text(get_text(doc, cells[1]))[2],
                             _clean_text(get_text(doc, cells[2])), reg)]

RecitalTocEntry(chunk) ==
    [type |-> "recital", number |-> chunk.number, title |-> chunk.title]

_parse_preamble(doc, cs, tc, reg) ==
    LET PreambleChunks(preamble_div, preamble_content_parts) ==
            IF preamble_content_parts # <<>>
            THEN <<PreambleChunk(doc, preamble_div, preamble_content_parts, reg)>>
            ELSE <<>>
        PreambleOf(preamble_div) ==
            PreambleChunks(preamble_div,
                           IF preamble_div = 0 THEN <<>>
                           ELSE PreambleContentParts(doc, preamble_div))
        CitationChunks(cits, citation_parts) ==
            IF citation_parts # <<>>
            THEN <<CitationChunk(citation_parts,
                                 [k \in 1..Len(cits) |-> doc[cits[k]].id], reg)>>
            ELSE <<>>
        CitationsOf(cits) ==
            CitationChunks(cits,
                [k \in 1..Len(cits) |->
                    TextOf(doc, find(doc, cits[k], ByClass(doc, "p", "oj-normal")))])
        CitationToc(citation_chunks) ==
            IF citation_chunks # <<>>
            THEN << [type |-> "citation", title |-> <<"Citation">>] >>
            ELSE <<>>
        Result(preamble_chunks, citation_chunks, recital_chunks) ==
            [chunks |-> cs \o preamble_chunks \o citation_chunks \o recital_chunks,
             toc |-> [tc EXCEPT !.sections = Append(@,
                        [type |-> "preamble", title |-> <<"Preamble">>,
                         children |->
                             CitationToc(citation_chunks)
                             \o [k \in 1..Len(recital_chunks) |->
                                    RecitalTocEntry(recital_chunks[k])]])]]
        recitals == find_all(doc, 1, Subdivisions(doc, "rct"))
    IN  Result(PreambleOf(find(doc, 1, Subdivisions(doc, "pbl"))),
               CitationsOf(CitationsWithText(doc)),
               Concat([k \in 1..Len(recitals) |->
                          RecitalChunksOf(doc, recitals[k], reg)]))


(***************************************************************************)
(* _clean_combined_text                                                    *)
(***************************************************************************)
\* re.sub(r'\(([a-z]+|[ivx]+)\)\n\n', r'(\1) ', text)
RECURSIVE SubListMarker(_)
SubListMarker(t) ==
    IF Len(t) < 4 THEN t
    ELSE IF t[1] = "(" /\ t[2] \in LowerToks /\ t[3] = ")" /\ t[4] = NL2
         THEN <<"(", t[2], ")", WS>> \o SubListMarker(SubSeq(t, 5, Len(t)))
         ELSE <<t[1]>> \o SubListMarker(Tail(t))

\* re.sub(r'\n\n(\d+\.)\n\n', r'\n\n\1 ', text)
RECURSIVE SubNumbered(_)
SubNumbered(t) ==
    IF Len(t) < 4 THEN t
    ELSE IF t[1] = NL2 /\ t[2] \in DigitToks /\ t[3] = "." /\ t[4] = NL2
         THEN <<NL2, t[2], ".", WS>> \o SubNumbered(SubSeq(t, 5, Len(t)))
         ELSE <<t[1]>> \o SubNumbered(Tail(t))

_clean_combined_text(t) == SubNumbered(SubListMarker(t))

(***************************************************************************)
(* _parse_article                                                          *)
(***************************************************************************)
\* id=re.compile(r'^\d+\.\d+')
NumberedIds(doc) ==
    {i \in DOMAIN doc : /\ Len(doc[i].id) >= 2
                        /\ doc[i].id[1] \in DigitToks
                        /\ doc[i].id[2] \in DigitToks}

NonEmpty(texts) == SelectSeq(texts, LAMBDA t : t # <<>>)

CleanTexts(doc, elems) ==
    NonEmpty([k \in 1..Len(elems) |-> _clean_text(get_text(doc, elems[k]))])

\* Method 1: the oj-normal paragraphs of the numbered sub-paragraph containers
ContentDivParts(doc, art_div) ==
    LET content_divs ==
            find_all(doc, art_div, ByTag(doc, "div") \cap NumberedIds(doc))
    IN  Concat([k \in 1..Len(content_divs) |->
                  CleanTexts(doc, find_all(doc, content_divs[k],
                                           ByClass(doc, "p", "oj-normal")))])

\* Method 2: the oj-normal paragraphs that are children of the article
DirectParaParts(doc, art_div) ==
    CleanTexts(doc, find_all_direct(doc, art_div, ByClass(doc, "p", "oj-normal")))

\* Method 3: the two-cell rows of every table of the article
TableRowParts(doc, art_div) ==
    LET tables == find_all(doc, art_div, ByTag(doc, "table"))
        Part(marker, text) ==
            IF text # <<>> THEN marker \o <<WS>> \o text ELSE <<>>
        RowPart(cells) ==
            IF Len(cells) = 2
            THEN Part(TextOf(doc, cells[1]), TextOf(doc, cells[2]))
            ELSE <<>>
        TableParts(rows) ==
            NonEmpty([k \in 1..Len(rows) |->
                         RowPart(find_all(doc, rows[k], ByTag(doc, "td")))])
    IN  Concat([k \in 1..Len(tables) |->
                   TableParts(find_all(doc, tables[k], ByTag(doc, "tr")))])

ArticleContentParts(doc, art_div) ==
    ContentDivParts(doc, art_div) \o DirectParaParts(doc, art_div)
        \o TableRowParts(doc, art_div)

\* re.search(r'Article\s+(\d+[a-z]*)', art_text, re.I): the positions of a match
ArticleMatches(art_text) ==
    {k \in 1..Len(art_text) :
        /\ k + 2 <= Len(art_text)
        /\ art_text[k] \in {"Article", "ARTICLE", "article"}
        /\ art_text[k+1] = WS
        /\ art_text[k+2] \in ArticleNumToks}

Min(S) == CHOOSE x \in S : \A y \in S : x <= y

TitleWith(head, subtitle) ==
    IF subtitle # <<>> THEN head \o <<WS, "-", WS>> \o subtitle ELSE head


\* faulty variant: the path ends with "Article N", without the subtitle of the title
ArticleChunk_PathNoSubtitle(doc, art_div, art_num, art_subtitle, full_content, hierarchy_path) ==
    RegulationChunk("article", <<art_num>>,
                    TitleWith(<<"Article", WS, art_num>>, art_subtitle),
                    IF full_content # <<>> THEN full_content ELSE art_subtitle,
                    hierarchy_path \o << <<"Article", WS, art_num>> >>,
                    [id |-> doc[art_div].id, subtitle |-> art_subtitle])

ArticleChunk(doc, art_div, art_num, art_subtitle, full_content, hierarchy_path) ==
    RegulationChunk("article", <<art_num>>,
                    TitleWith(<<"Article", WS, art_num>>, art_subtitle),
                    IF full_content # <<>> THEN full_content ELSE art_subtitle,
                    hierarchy_path
                        \o << TitleWith(<<"Article", WS, art_num>>, art_subtitle) >>,
                    [id |-> doc[art_div].id, subtitle |-> art_subtitle])

\* the chunks (none or one) that _parse_article appends for art_div
_parse_article(doc, art_div, hierarchy_path) ==
    LET art_text == TextOf(doc, find(doc, art_div, ByClass(doc, "p", "oj-ti-art")))
    IN  IF ArticleMatches(art_text) = {} THEN <<>>
        ELSE << ArticleChunk(doc, art_div,
                    art_text[Min(ArticleMatches(art_text)) + 2],
                    TextOf(doc, find(doc, art_div, ByClass(doc, "p", "oj-sti-art"))),
                    _clean_combined_text(
                        Join(<<NL2>>, ArticleContentParts(doc, art_div))),
                    hierarchy_path) >>

ArticleTocEntry(chunk) ==
    [type |-> "article", number |-> chunk.number[1], title |-> chunk.title]

ParseArticles(doc, articles, hierarchy_path) ==
    Concat([k \in 1..Len(articles) |->
               _parse_article(doc, articles[k], hierarchy_path)])

ArticleToc(article_chunks) ==
    [k \in 1..Len(article_chunks) |-> ArticleTocEntry(article_chunks[k])]

(***************************************************************************)
(* _parse_enacting_terms                                                   *)
(***************************************************************************)
\* re.match(r'<WORD>\s+([IVXLCDM]+|\d+)', text, re.I)
HeadingMatch(words, text) ==
    /\ Len(text) >= 3
    /\ text[1] \in words
    /\ text[2] = WS
    /\ text[3] \in RomanToks \cup DigitToks

ChapterWords == {"CHAPTER", "Chapter", "chapter"}
SectionWords == {"SECTION", "Section", "section"}

\* the oj-ti-section-2 paragraph of a chapter or section container, cleaned
Subtitle(doc, div) ==
    LET FirstOf(subtitle_p, title_div) ==
            IF subtitle_p # 0 THEN subtitle_p
            ELSE IF title_div # 0
                 THEN find(doc, title_div, ByClass(doc, "p", "oj-ti-section-2"))
                 ELSE 0
    IN  TextOf(doc, FirstOf(find(doc, div, ByClass(doc, "p", "oj-ti-section-2")),
                            find(doc, div, ByClass(doc, "div", "eli-title"))))

\* id=re.compile(r'^cpt_[^.]+\.sct_')
SectionIds(doc) ==
    {i \in DOMAIN doc : /\ Len(doc[i].id) >= 3
                        /\ doc[i].id[1] = "cpt"
                        /\ doc[i].id[3] = "sct"}

Articles(doc, e) == find_all(doc, e, Subdivisions(doc, "art"))

\* a section whose heading is recognised: its articles, parsed under the
\* hierarchy that ends with the section's title, and its TOC node
SectionArticles(doc, section_div, chapter_hierarchy, section_num, section_full_title) ==
    LET Result(article_chunks) ==
            [ok |-> TRUE, chunks |-> article_chunks,
             toc |-> [type |-> "section", number |-> section_num,
                      title |-> section_full_title,
                      children |-> ArticleToc(article_chunks)]]
    IN  Result(ParseArticles(doc, Articles(doc, section_div),
                             chapter_hierarchy \o <<section_full_title>>))

\* one section container of a chapter: whether its heading is recognised,
\* its chunks and its TOC node
SectionResult(doc, section_div, chapter_hierarchy) ==
    LET section_text ==
            TextOf(doc, find(doc, section_div, ByClass(doc, "p", "oj-ti-section-1")))
    IN  IF ~HeadingMatch(SectionWords, section_text)
        THEN [ok |-> FALSE, chunks |-> <<>>]
        ELSE SectionArticles(doc, section_div, chapter_hierarchy, section_text[3],
                 TitleWith(<<"SECTION", WS, section_text[3]>>,
                           Subtitle(doc, section_div)))

\* faulty variant: the chapter's hierarchy kept under the "Enacting Terms" node
ChapterHierarchy_UnderEnacting(reg, full_title) ==
    WithRoot(reg, << <<"Enacting", WS, "Terms">>, full_title >>)

\* [self.regulation_title, full_title] if self.regulation_title else [full_title]
ChapterHierarchy(reg, full_title) == WithRoot(reg, <<full_title>>)

\* a chapter whose heading is recognised: the articles of its sections if
\* it has section children, its own articles otherwise
ChapterContents(doc, chapter_div, reg, chapter_num, full_title) ==
    LET hierarchy == ChapterHierarchy(reg, full_title)
        sections == find_all_direct(doc, chapter_div,
                                    ByTag(doc, "div") \cap SectionIds(doc))
        Result(chapter_chunks, kids) ==
            [ok |-> TRUE, hierarchy |-> hierarchy, chunks |-> chapter_chunks,
             toc |-> [type |-> "chapter", number |-> chapter_num,
                      title |-> full_title, children |-> kids]]
        OfSections(good) ==
            Result(Concat([k \in 1..Len(good) |-> good[k].chunks]),
                   [k \in 1..Len(good) |-> good[k].toc])
        OfArticles(direct_chunks) ==
            Result(direct_chunks, ArticleToc(direct_chunks))
    IN  IF sections # <<>>
        THEN OfSections(SelectSeq(
                 [k \in 1..Len(sections) |->
                     SectionResult(doc, sections[k], hierarchy)],
                 LAMBDA r : r.ok))
        ELSE OfArticles(ParseArticles(doc, Articles(doc, chapter_div), hierarchy))

\* one chapter container: whether its heading is recognised, its chunks,
\* its TOC node and the value it leaves in self.current_hierarchy
ChapterResult(doc, chapter_div, reg) ==
    LET chapter_text ==
            TextOf(doc, find(doc, chapter_div, ByClass(doc, "p", "oj-ti-section-1")))
    IN  IF ~HeadingMatch(ChapterWords, chapter_text)
        THEN [ok |-> FALSE, chunks |-> <<>>]
        ELSE ChapterContents(doc, chapter_div, reg, chapter_text[3],
                 TitleWith(<<"CHAPTER", WS, chapter_text[3]>>,
                           Subtitle(doc, chapter_div)))

Chapters(doc) == find_all(doc, 1, ByTag(doc, "div") \cap IdStarts(doc, "cpt"))

\* the chunks of the articles of a document without chapters
\* faulty variant: the articles are parsed only when the document has a title
FlatArticles_NeedsTitle(doc, reg) ==
    IF reg = <<>> THEN <<>>
    ELSE ParseArticles(doc, Articles(doc, 1),
                       <<reg, <<"Enacting", WS, "Terms">> >>)

FlatArticles(doc, reg) ==
    ParseArticles(doc, Articles(doc, 1), WithRoot(reg, << <<"Enacting", WS, "Terms">> >>))

EnactingSection(kids) ==
    [type |-> "enacting_terms", title |-> <<"Enacting", WS, "Terms">>,
     children |-> kids]

_parse_enacting_terms(doc, cs, tc, reg, cur) ==
    LET chapters == Chapters(doc)
        Flat(flat) ==
            [chunks |-> cs \o flat,
             toc |-> [tc EXCEPT !.sections =
                         Append(@, EnactingSection(ArticleToc(flat)))],
             current_hierarchy |-> cur]
        Chaptered(good) ==
            [chunks |-> cs \o Concat([k \in 1..Len(good) |-> good[k].chunks]),
             toc |-> [tc EXCEPT !.sections =
                         Append(@, EnactingSection(
                             [k \in 1..Len(good) |-> good[k].toc]))],
             current_hierarchy |->
                 IF good = <<>> THEN cur ELSE good[Len(good)].hierarchy]
    IN  IF chapters = <<>> /\ Articles(doc, 1) # <<>>
        THEN Flat(FlatArticles(doc, reg))
        ELSE Chaptered(SelectSeq(
                 [k \in 1..Len(chapters) |-> ChapterResult(doc, chapters[k], reg)],
                 LAMBDA r : r.ok))


(***************************************************************************)
(* _parse_concluding_formulas                                              *)
(***************************************************************************)
\* the paragraphs of the oj-final block, then one entry for each signatory
ConcludingParts(doc, final_div) ==
    LET signatories == find_all(doc, final_div, ByClass(doc, "div", "oj-signatory"))
        SigParts(sig) ==
            LET sig_paras == find_all(doc, sig, ByClass(doc, "p", "oj-signatory"))
            IN  [k \in 1..Len(sig_paras) |->
                    _clean_text(get_text(doc, sig_paras[k]))]
        with_parts == SelectSeq(signatories, LAMBDA sig : SigParts(sig) # <<>>)
    IN  CleanTexts(doc, find_all(doc, final_div, ByClass(doc, "p", "oj-normal")))
          \o [k \in 1..Len(with_parts) |-> Join(<<NL>>, SigParts(with_parts[k]))]

ConcludingChunk(doc, concluding_div, full_content, reg) ==
    RegulationChunk("concluding_formulas", NoneVal,
                    <<"Concluding", WS, "formulas">>, full_content,
                    WithRoot(reg, << <<"Concluding", WS, "formulas">> >>),
                    [id |-> doc[concluding_div].id])

\* faulty variant: the concluding chunk is put in front of the chunks so far
_parse_concluding_formulas_InFront(doc, cs, tc, reg) ==
    LET concluding_div == find(doc, 1, Subdivisions(doc, "fnp"))
        final_div == IF concluding_div = 0 THEN 0
                     ELSE find(doc, concluding_div, ByClass(doc, "div", "oj-final"))
        full_content == IF final_div = 0 THEN <<>>
                        ELSE Join(<<NL2>>, ConcludingParts(doc, final_div))
    IN  [chunks |-> IF full_content # <<>>
                    THEN <<ConcludingChunk(doc, concluding_div, full_content, reg)>>
                           \o cs
                    ELSE cs,
         toc |-> tc]

_parse_concluding_formulas(doc, cs, tc, reg) ==
    LET concluding_div == find(doc, 1, Subdivisions(doc, "fnp"))
        final_div == IF concluding_div = 0 THEN 0
                     ELSE find(doc, concluding_div, ByClass(doc, "div", "oj-final"))
        full_content == IF final_div = 0 THEN <<>>
                        ELSE Join(<<NL2>>, ConcludingParts(doc, final_div))
    IN  IF full_content # <<>>
        THEN [chunks |-> Append(cs, ConcludingChunk(doc, concluding_div,
                                                    full_content, reg)),
              toc |-> [tc EXCEPT !.sections = Append(@,
                          [type |-> "concluding_formulas",
                           title |-> <<"Concluding", WS, "formulas">>])]]
        ELSE [chunks |-> cs, toc |-> tc]

(***************************************************************************)
(* _parse_annexes: one container of the loop                               *)
(***************************************************************************)
\* soup.find_all('div', class_='eli-container', id=re.compile(r'^anx_'))
AnnexContainers(doc) ==
    find_all(doc, 1, ByClass(doc, "div", "eli-container") \cap IdStarts(doc, "anx"))

\* '.app_' in annex_id
IsAppendix(id) == \E k \in 2..Len(id) : id[k] = "app"

\* the identifier of the container: "<n>.<m>" for an appendix, the number of
\* an annex
Identifier(id) ==
    IF IsAppendix(id)
    THEN Join(<<".">>, [k \in 1..Len(SelectSeq(id, LAMBDA c : c \notin {"anx", "app"}))
                          |-> <<SelectSeq(id, LAMBDA c : c \notin {"anx", "app"})[k]>>])
    ELSE IF Len(id) >= 2 THEN <<id[2]>> ELSE <<>>

AnnexSectionType(id) == IF IsAppendix(id) THEN "appendix" ELSE "annex"

\* identifier.upper() in title_text.upper(), token by token
TokUpperContains(tok, sub) ==
    \/ tok = sub
    \/ <<tok, sub>> \in {<<"II", "I">>, <<"III", "I">>, <<"III", "II">>,
                         <<"IV", "I">>, <<"List", "I">>, <<"14", "1">>,
                         <<"14", "4">>}

UpperContains(title_text, identifier) ==
    IF Len(identifier) = 1
    THEN \E k \in 1..Len(title_text) : TokUpperContains(title_text[k], identifier[1])
    ELSE \E k \in 1..Len(title_text) :
            /\ k + Len(identifier) - 1 <= Len(title_text)
            /\ SubSeq(title_text, k, k + Len(identifier) - 1) = identifier

\* the title, subtitle and base title of a container, from the oj-doc-ti
\* paragraphs it holds now
AnnexTitles(doc, annex_div) ==
    LET id == doc[annex_div].id
        identifier == Identifier(id)
        title_paragraphs == find_all(doc, annex_div, ByClass(doc, "p", "oj-doc-ti"))
        texts == [k \in 1..Len(title_paragraphs) |->
                     _clean_text(get_text(doc, title_paragraphs[k]))]
        title_text ==
            IF texts # <<>> THEN texts[1]
            ELSE IF IsAppendix(id) THEN <<"APPENDIX", WS>> \o identifier
            ELSE <<"ANNEX", WS>> \o identifier
        subtitle == IF Len(texts) > 1 THEN Join(<<WS>>, Tail(texts)) ELSE <<>>
    IN  [title_text |-> title_text,
         subtitle |-> subtitle,
         full_title |-> TitleWith(title_text, subtitle),
         base_title_with_id |->
            IF IsAppendix(id) THEN <<"APPENDIX", WS>> \o identifier
            ELSE IF identifier # <<>> /\ ~UpperContains(title_text, identifier)
                 THEN <<"ANNEX", WS>> \o identifier
                 ELSE title_text]

PartWords == {"PART", "Part", "part"}
LetterToks == {"A", "B"}

\* re.match(r'^Section\s+([A-Z]|\d+)', part_text, re.I): one letter or digits
SectionCapture(tok) ==
    IF tok \in RomanToks THEN "I" ELSE tok

\* the oj-ti-grseq-1 paragraphs of the container that read PART x or Section x
PartsDetected(doc, annex_div) ==
    LET part_headers == find_all(doc, annex_div, ByClass(doc, "p", "oj-ti-grseq-1"))
        section_match(part_text) ==
            /\ Len(part_text) >= 3
            /\ part_text[1] \in SectionWords
            /\ part_text[2] = WS
            /\ part_text[3] \in LetterToks \cup RomanToks \cup DigitToks
        Info(part_header, part_text) ==
            IF HeadingMatch(PartWords, part_text)
            THEN << [element |-> part_header, number |-> part_text[3],
                     title |-> part_text, type |-> "part"] >>
            ELSE IF section_match(part_text)
            THEN << [element |-> part_header,
                     number |-> SectionCapture(part_text[3]),
                     title |-> part_text, type |-> "section"] >>
            ELSE <<>>
    IN  Concat([k \in 1..Len(part_headers) |->
                   Info(part_headers[k], TextOf(doc, part_headers[k]))])

\* Tag.__eq__: the same name, attributes and contents
TagEq(doc, a, b) ==
    LET Sub(e) == InOrder(doc, {k \in DOMAIN doc : k = e \/ IsAncestor(doc, e, k)})
        Rel(e) == [k \in 1..Len(Sub(e)) |->
                     [doc[Sub(e)[k]] EXCEPT !.parent = IF k = 1 THEN 0 ELSE @ - e]]
    IN  Rel(a) = Rel(b)

\* the siblings after part_elem, up to the first one equal to next_part_elem
ContentElements(doc, part_elem, next_part_elem) ==
    LET sibs == SelectSeq(children(doc, doc[part_elem].parent),
                          LAMBDA k : k > part_elem)
        stops == {k \in 1..Len(sibs) :
                    next_part_elem # 0 /\ TagEq(doc, sibs[k], next_part_elem)}
    IN  IF stops = {} THEN sibs ELSE SubSeq(sibs, 1, Min(stops) - 1)

\* the text lines taken from one element between two part headings
PartElemParts(doc, elem) ==
    LET tables == find_all(doc, elem, ByTag(doc, "table"))
        Both(num_text, content_text) ==
            IF num_text # <<>> /\ content_text # <<>>
            THEN num_text \o <<WS>> \o content_text ELSE <<>>
        RowPart(cells) ==
            IF Len(cells) >= 2
            THEN Both(TextOf(doc, cells[1]), TextOf(doc, cells[2]))
            ELSE IF Len(cells) = 1 THEN TextOf(doc, cells[1]) ELSE <<>>
        TableParts(rows) ==
            NonEmpty([k \in 1..Len(rows) |->
                         RowPart(find_all(doc, rows[k], ByTag(doc, "td")))])
    IN  IF tables # <<>>
        THEN Concat([k \in 1..Len(tables) |->
                       TableParts(find_all(doc, tables[k], ByTag(doc, "tr")))])
        ELSE NonEmpty(<< TextOf(doc, elem) >>)

PartContent(doc, part_elem, next_part_elem) ==
    LET elems == ContentElements(doc, part_elem, next_part_elem)
    IN  Join(<<NL2>>, Concat([k \in 1..Len(elems) |-> PartElemParts(doc, elems[k])]))

PartMetadata(annex_id, part_type, part_num) ==
    IF part_type = "part" THEN [id |-> annex_id, part |-> part_num]
    ELSE [id |-> annex_id, section |-> part_num]


\* faulty variant: the chunk typed by the kind of its heading (part or section)
PartChunk_TypeFromPart(doc, annex_div, titles, part_info, part_content, reg) ==
    RegulationChunk(part_info.type,
                    Identifier(doc[annex_div].id) \o <<".", part_info.number>>,
                    titles.base_title_with_id \o <<WS, "-", WS>> \o part_info.title,
                    part_content,
                    WithRoot(reg, <<titles.base_title_with_id>>) \o <<part_info.title>>,
                    PartMetadata(doc[annex_div].id, part_info.type, part_info.number))

PartChunk(doc, annex_div, titles, part_info, part_content, reg) ==
    RegulationChunk(AnnexSectionType(doc[annex_div].id),
                    Identifier(doc[annex_div].id) \o <<".", part_info.number>>,
                    titles.base_title_with_id \o <<WS, "-", WS>> \o part_info.title,
                    part_content,
                    WithRoot(reg, <<titles.base_title_with_id>>) \o <<part_info.title>>,
                    PartMetadata(doc[annex_div].id, part_info.type, part_info.number))

\* the chunks of a container with detected parts: one for each of them
PartChunksAll(doc, annex_div, titles, parts_detected, reg) ==
    [i \in 1..Len(parts_detected) |->
        PartChunk(doc, annex_div, titles, parts_detected[i],
                  PartContent(doc, parts_detected[i].element,
                              IF i + 1 <= Len(parts_detected)
                              THEN parts_detected[i + 1].element ELSE 0),
                  reg)]

\* faulty variant: a part without content gives no chunk
PartChunks_NonEmpty(doc, annex_div, titles, parts_detected, reg) ==
    SelectSeq(PartChunksAll(doc, annex_div, titles, parts_detected, reg),
              LAMBDA c : c.content # <<>>)

PartChunks(doc, annex_div, titles, parts_detected, reg) ==
    PartChunksAll(doc, annex_div, titles, parts_detected, reg)


\* str.splitlines() of a text
RECURSIVE SplitLines(_)
SplitLines(t) ==
    LET breaks == {k \in 1..Len(t) : t[k] = NL}
    IN  IF breaks = {} THEN <<t>>
        ELSE <<SubSeq(t, 1, Min(breaks) - 1)>>
                \o SplitLines(SubSeq(t, Min(breaks) + 1, Len(t)))

\* line.strip()
RECURSIVE StripAll(_)
StripAll(t) ==
    IF t # <<>> /\ Head(t) = WS THEN StripAll(Tail(t))
    ELSE IF t # <<>> /\ t[Len(t)] = WS THEN StripAll(SubSeq(t, 1, Len(t) - 1))
    ELSE t

\* annex_div.get_text(separator='\n'), then the stripped non-blank lines
\* joined by '\n'
AnnexLines(doc, annex_div) ==
    LET strings == NonEmpty([k \in 1..Len(doc) |->
                      IF k = annex_div \/ IsAncestor(doc, annex_div, k)
                      THEN doc[k].text ELSE <<>>])
        lines == SplitLines(Join(<<NL>>, strings))
    IN  Join(<<NL>>, NonEmpty([k \in 1..Len(lines) |-> StripAll(lines[k])]))

\* re.sub(r'\n\(([a-zA-Z]+|[ivxlcdmIVXLCDM]+|\d+)\)\n', r'\n(\1) ', full_content)
RECURSIVE SubAnnexMarker(_)
SubAnnexMarker(t) ==
    IF Len(t) < 5 THEN t
    ELSE IF /\ t[1] = NL /\ t[2] = "(" /\ t[4] = ")" /\ t[5] = NL
            /\ t[3] \in LowerToks \cup LetterToks \cup RomanToks \cup DigitToks
         THEN <<NL, "(", t[3], ")", WS>> \o SubAnnexMarker(SubSeq(t, 6, Len(t)))
         ELSE <<t[1]>> \o SubAnnexMarker(Tail(t))

\* re.sub(r'\n<em dash>\n', '\n<em dash> ', full_content)
DASH == "--"     \* the em dash

RECURSIVE SubDash(_)
SubDash(t) ==
    IF Len(t) < 3 THEN t
    ELSE IF t[1] = NL /\ t[2] = DASH /\ t[3] = NL
         THEN <<NL, DASH, WS>> \o SubDash(SubSeq(t, 4, Len(t)))
         ELSE <<t[1]>> \o SubDash(Tail(t))

EndsWithM == {"m"}
StartsWith3 == {"3"}

\* re.sub(r'm\s*\n\s*3', 'm3', full_content)
RECURSIVE SubCubic(_)
SubCubic(t) ==
    IF Len(t) < 3 THEN t
    ELSE IF t[1] \in EndsWithM /\ t[2] = NL /\ t[3] \in StartsWith3
         THEN <<t[1], t[3]>> \o SubCubic(SubSeq(t, 4, Len(t)))
         ELSE <<t[1]>> \o SubCubic(Tail(t))

\* the content of a container without parts, its title paragraphs removed
WholeAnnexContent(doc, annex_div) ==
    SubCubic(SubDash(SubAnnexMarker(AnnexLines(doc, annex_div))))

WholeAnnexChunk(doc, annex_div, titles, full_content, reg) ==
    RegulationChunk(AnnexSectionType(doc[annex_div].id),
                    Identifier(doc[annex_div].id),
                    titles.full_title,
                    IF full_content = <<>> /\ titles.subtitle # <<>>
                    THEN titles.subtitle ELSE full_content,
                    WithRoot(reg, <<titles.full_title>>),
                    [id |-> doc[annex_div].id, subtitle |-> titles.subtitle])


\* faulty variant: the chunk emitted also when there is neither content nor subtitle
WholeAnnexChunks_Always(doc, annex_div, titles, reg) ==
    << WholeAnnexChunk(doc, annex_div, titles,
                       WholeAnnexContent(doc, annex_div), reg) >>

\* the chunks (none or one) of a container without parts; doc is the tree
\* after the title paragraphs are decomposed, titles were read before
WholeAnnexChunks(doc, annex_div, titles, reg) ==
    IF WholeAnnexContent(doc, annex_div) # <<>> \/ titles.subtitle # <<>>
    THEN << WholeAnnexChunk(doc, annex_div, titles,
                            WholeAnnexContent(doc, annex_div), reg) >>
    ELSE <<>>

\* the chunks and the TOC node of one container, its titles and its
\* detected part headings being known
AnnexEmit(doc, annex_div, cs, tc, reg, titles, parts_detected) ==
    LET id == doc[annex_div].id
        TocOf(title) ==
            [type |-> AnnexSectionType(id), number |-> Identifier(id),
             title |-> title]
        WithWhole(stripped, whole) ==
            [soup |-> stripped,
             chunks |-> cs \o whole,
             toc |-> IF whole = <<>> THEN tc
                     ELSE [tc EXCEPT !.sections =
                              Append(@, TocOf(titles.full_title))]]
        Whole(stripped) ==
            WithWhole(stripped, WholeAnnexChunks(stripped, annex_div, titles, reg))
    IN  IF parts_detected # <<>>
        THEN [soup |-> doc,
              chunks |-> cs \o PartChunks(doc, annex_div, titles, parts_detected, reg),
              toc |-> [tc EXCEPT !.sections = Append(@,
                         [type |-> AnnexSectionType(id),
                          number |-> Identifier(id),
                          title |-> titles.base_title_with_id,
                          children |-> [k \in 1..Len(parts_detected) |->
                              [type |-> parts_detected[k].type,
                               number |-> parts_detected[k].number,
                               title |-> parts_detected[k].title]]])]]
        ELSE Whole(Decompose(doc, {p \in ByClass(doc, "p", "oj-doc-ti") :
                                      IsAncestor(doc, annex_div, p)}))

\* the body of _parse_annexes' loop for one container
AnnexStep(doc, annex_div, cs, tc, reg) ==
    AnnexEmit(doc, annex_div, cs, tc, reg, AnnexTitles(doc, annex_div),
              PartsDetected(doc, annex_div))


(***************************************************************************)
(* The input documents: EUR-Lex markup, built from its parts.  Each part   *)
(* comes in the shapes found in the source documents and in the malformed  *)
(* shapes the parser guards against.                                       *)
(***************************************************************************)
NumTok(k) == <<"1", "2", "3", "4", "5", "6", "7", "8", "9">>[k]
RomanTok(k) == <<"I", "II", "III", "IV">>[k]

P(cls, text) == El("p", cls, <<>>, text, <<>>)
Div(cls, id, kids) == El("div", cls, id, <<>>, kids)
Td(kids) == El("td", "", <<>>, <<>>, kids)
Tr(cells) == El("tr", "", <<>>, <<>>, cells)
Table(rows) == El("table", "", <<>>, <<>>, rows)
\* a two-cell row: the marker and the text, each in its paragraph
Row2(marker, text) ==
    Tr(<< Td(<<P("oj-normal", marker)>>), Td(<<P("oj-normal", text)>>) >>)

SeqsUpTo(S, n) == UNION {[1..k -> S] : k \in 0..n}

TitleShapes == {"absent", "empty", "blank", "one", "two"}

TitleFrags(shape) ==
    LET first == P("oj-doc-ti", <<WS, "REGULATION", WS, WS, "2024/1689">>)
        second == P("oj-doc-ti", <<"laying", WS, "down", NL, "rules">>)
        div(kids) == <<Div("eli-main-title", <<"tit", "1">>, kids)>>
    IN  CASE shape = "absent" -> <<>>
          [] shape = "empty" -> div(<<>>)
          [] shape = "blank" -> div(<<P("oj-doc-ti", <<WS>>)>>)
          [] shape = "one" -> div(<<first>>)
          [] shape = "two" -> div(<<first, second>>)

CitShapes == {"text", "blank", "nopara"}

CitFrag(k, shape) ==
    Div("eli-subdivision", <<"cit", NumTok(k)>>,
        CASE shape = "text" ->
                <<P("oj-normal", <<"Having", WS, "regard", WS, NumTok(k)>>)>>
          [] shape = "blank" -> <<P("oj-normal", <<WS>>)>>
          [] shape = "nopara" -> <<>>)

RctShapes == {"ok", "bare", "notable", "nested"}

RctFrag(k, shape) ==
    LET text == <<"Whereas", WS, NumTok(k)>>
        marker == <<"(", NumTok(k), ")">>
    IN  Div("eli-subdivision", <<"rct", NumTok(k)>>,
            CASE shape = "ok" -> <<Table(<<Row2(marker, text)>>)>>
              [] shape = "bare" -> <<Table(<<Row2(<<"14">>, text)>>)>>
              [] shape = "notable" -> <<P("oj-normal", marker \o <<WS>> \o text)>>
              [] shape = "nested" ->
                    <<Table(<<Tr(<<
                        Td(<<P("oj-normal", marker)>>),
                        Td(<<P("oj-normal", text),
                             Table(<<Row2(<<"(", "a", ")">>, <<"point">>)>>)>>)
                      >>)>>)>>)

PblShapes == {"absent", "intro", "nointro"}

PreambleFrags(shape, cits, rcts) ==
    LET inner == [k \in 1..Len(cits) |-> CitFrag(k, cits[k])]
                   \o [k \in 1..Len(rcts) |-> RctFrag(k, rcts[k])]
        intro == P("oj-normal", <<"THE", WS, "EUROPEAN", WS, "PARLIAMENT,">>)
    IN  CASE shape = "absent" -> inner
          [] shape = "intro" ->
                <<Div("eli-subdivision", <<"pbl", "1">>, <<intro>> \o inner)>>
          [] shape = "nointro" ->
                <<Div("eli-subdivision", <<"pbl", "1">>, inner)>>

\* an article: heading, subtitle and one numbered paragraph
ArtFrag(n) ==
    Div("eli-subdivision", <<"art", NumTok(n)>>,
        << P("oj-ti-art", <<"Article", WS, NumTok(n)>>),
           Div("eli-title", <<>>, <<P("oj-sti-art", <<"Subject", WS, NumTok(n)>>)>>),
           Div("", <<NumTok(n), "1">>,
               <<P("oj-normal", <<"1", ".", WS, "Text", WS, NumTok(n)>>)>>) >>)

ArtBodyShapes == {"direct", "numbered_table", "nested_table", "bare_markers"}

\* an article whose body combines the layout patterns: an introductory
\* paragraph and a table that are children of the article; a table inside
\* a numbered sub-paragraph container; a table nested in a table cell;
\* markers in paragraphs of their own
ArtFragWith(n, body) ==
    Div("eli-subdivision", <<"art", NumTok(n)>>,
        << P("oj-ti-art", <<"Article", WS, NumTok(n)>>),
           Div("eli-title", <<>>, <<P("oj-sti-art", <<"Subject", WS, NumTok(n)>>)>>) >>
        \o (CASE body = "direct" ->
                    << P("oj-normal", <<"The", WS, "following", WS, "apply:">>),
                       Table(<<Row2(<<"(", "a", ")">>, <<"first", WS, "point">>)>>) >>
               [] body = "numbered_table" ->
                    << Div("", <<NumTok(n), "1">>,
                           << P("oj-normal", <<"1", ".", WS, "The", WS, "following:">>),
                              Table(<<Row2(<<"(", "a", ")">>,
                                           <<"first", WS, "point">>)>>) >>) >>
               [] body = "bare_markers" ->
                    << Div("", <<NumTok(n), "1">>,
                           << P("oj-normal", <<"1", ".">>),
                              P("oj-normal", <<"First", WS, "paragraph">>),
                              P("oj-normal", <<"(", "a", ")">>),
                              P("oj-normal", <<"first", WS, "point">>),
                              P("oj-normal", <<"2", ".">>),
                              P("oj-normal", <<"Second", WS, "paragraph">>) >>) >>
               [] body = "nested_table" ->
                    << Table(<<Tr(<<
                          Td(<<P("oj-normal", <<"(", "a", ")">>)>>),
                          Td(<<P("oj-normal", <<"first", WS, "point">>),
                               Table(<<Row2(<<"(", "i", ")">>,
                                            <<"sub", WS, "point">>)>>)>>)
                        >>)>>) >>))

SectShapes == {"titled", "untitled", "badhead"}

\* section k of chapter c, holding article k
SectFrag(c, k, shape) ==
    Div("", <<"cpt", RomanTok(c), "sct", NumTok(k)>>,
        (IF shape = "badhead"
         THEN <<P("oj-ti-section-1", <<"Subsection", WS, NumTok(k)>>)>>
         ELSE <<P("oj-ti-section-1", <<"SECTION", WS, NumTok(k)>>)>>)
        \o (IF shape = "titled"
            THEN <<Div("eli-title", <<>>,
                       <<P("oj-ti-section-2", <<"Scope", WS, NumTok(k)>>)>>)>>
            ELSE <<>>)
        \o <<ArtFrag(k)>>)

ChapHeads == {"ok", "none", "bad"}
ChapSubs == {"none", "direct", "nested"}

\* chapter c: its heading, its subtitle, its sections (each with one
\* article) and the articles that are its children (numbered from first)
ChapFrag(c, head, sub, sects, direct, first) ==
    Div("", <<"cpt", RomanTok(c)>>,
        (CASE head = "ok" -> <<P("oj-ti-section-1", <<"CHAPTER", WS, RomanTok(c)>>)>>
           [] head = "bad" -> <<P("oj-ti-section-1", <<"TITLE", WS, RomanTok(c)>>)>>
           [] head = "none" -> <<>>)
        \o (CASE sub = "none" -> <<>>
              [] sub = "direct" ->
                    <<P("oj-ti-section-2", <<"GENERAL", WS, WS, "PROVISIONS">>)>>
              [] sub = "nested" ->
                    <<Div("eli-title", <<>>,
                        <<P("oj-ti-section-2", <<"GENERAL", WS, "PROVISIONS">>)>>)>>)
        \o [k \in 1..Len(sects) |-> SectFrag(c, k, sects[k])]
        \o [k \in 1..direct |-> ArtFrag(first + k - 1)])

EnactShape(kind, n, head, sub, sects, direct, plain, stray) ==
    [kind |-> kind, n |-> n, head |-> head, sub |-> sub, sects |-> sects,
     direct |-> direct, plain |-> plain, stray |-> stray]

FlatEnact(n) == EnactShape("flat", n, "ok", "none", <<>>, 0, 0, FALSE)

\* the enacting terms of the model: without chapters; one chapter in every
\* shape; a chapter followed by well-formed chapters and stray articles
EnactShapes ==
    {FlatEnact(n) : n \in 0..MaxFlatArt}
    \cup
    {EnactShape("chapters", 0, hs[1], hs[2], sects, direct, 0, FALSE) :
        hs \in ({"ok"} \X ChapSubs) \cup ({"none", "bad"} \X {"nested"}),
        sects \in SeqsUpTo(SectShapes, MaxSect), direct \in 0..1}
    \cup
    {EnactShape("chapters", 0, "ok", "nested", sects, direct, plain, stray) :
        sects \in SeqsUpTo(SectShapes, 1), direct \in 0..1,
        plain \in 0..MaxPlainChap, stray \in BOOLEAN}

\* articles 1..MaxSect+1 belong to the sections of the varied chapter, the
\* next one is its child, the next a stray one outside every chapter, the
\* rest belong to the plain chapters
EnactFrags(e) ==
    IF e.kind = "flat"
    THEN <<Div("eli-container", <<"enc", "1">>, [k \in 1..e.n |-> ArtFrag(k)])>>
    ELSE IF e.kind = "bodies"
    THEN <<Div("eli-container", <<"enc", "1">>, <<ArtFragWith(1, e.sub)>>)>>
    ELSE <<Div("eli-container", <<"enc", "1">>,
             <<ChapFrag(1, e.head, e.sub, e.sects, e.direct, MaxSect + 2)>>
             \o [k \in 1..e.plain |->
                    ChapFrag(k + 1, "ok", "nested", <<>>, 1, MaxSect + 3 + k)]
             \o (IF e.stray THEN <<ArtFrag(MaxSect + 3)>> ELSE <<>>))>>

ConclShapes == {"absent", "empty", "full"}

ConclFrags(shape) ==
    CASE shape = "absent" -> <<>>
      [] shape = "empty" ->
            <<Div("eli-subdivision", <<"fnp", "1">>, <<Div("oj-final", <<>>, <<>>)>>)>>
      [] shape = "full" ->
            <<Div("eli-subdivision", <<"fnp", "1">>,
                <<Div("oj-final", <<>>,
                    << P("oj-normal", <<"Done", WS, "at", WS, "Brussels">>),
                       Div("oj-signatory", <<>>,
                           << P("oj-signatory", <<"For", WS, "the", WS, "Council">>),
                              P("oj-signatory", <<"The", WS, "President">>) >>) >>)>>)>>

AnnexTitleShapes == {"none", "plain", "noid", "two"}
HeadShapes == {"part", "section", "other"}
BodyShapes == {"none", "para", "table"}
AppShapes == {"none", "whole", "parts"}

AnnexTitleFrags(word, idtext, shape) ==
    CASE shape = "none" -> <<>>
      [] shape = "plain" -> <<P("oj-doc-ti", <<word, WS>> \o idtext)>>
      [] shape = "noid" -> <<P("oj-doc-ti", <<word>>)>>
      [] shape = "two" -> << P("oj-doc-ti", <<word, WS>> \o idtext),
                             P("oj-doc-ti", <<"List", WS, "of", WS, "offences">>) >>

\* the body that follows heading k (k = 0: the body of a whole annex)
BodyFrags(k, shape) ==
    CASE shape = "none" -> <<>>
      [] shape = "para" -> <<P("oj-normal", <<"Item", WS, NumTok(k + 1)>>)>>
      [] shape = "table" ->
            <<Table(<<Row2(<<"(", "a", ")">>, <<"terrorism,", WS, NumTok(k + 1)>>)>>)>>

HeadFrag(k, shape) ==
    P("oj-ti-grseq-1",
      CASE shape = "part" -> <<"PART", WS, RomanTok(k)>>
        [] shape = "section" -> <<"Section", WS, <<"A", "B", "1", "2">>[k]>>
        [] shape = "other" -> <<NumTok(k), ".", WS, "General">>)

\* the appendix nested in annex a
AppFrags(a, shape) ==
    CASE shape = "none" -> <<>>
      [] shape = "whole" ->
            <<Div("eli-container", <<"anx", NumTok(a), "app", "1">>,
                  AnnexTitleFrags("Appendix", <<"1">>, "two")
                    \o BodyFrags(7, "para"))>>
      [] shape = "parts" ->
            <<Div("eli-container", <<"anx", NumTok(a), "app", "1">>,
                  AnnexTitleFrags("Appendix", <<"1">>, "plain")
                    \o <<HeadFrag(4, "part")>> \o BodyFrags(8, "para"))>>

\* annex a: its title paragraphs, its body or its headings with their
\* bodies, and its appendix
AnnexFrag(a, titles, heads, body, app) ==
    Div("eli-container", <<"anx", RomanTok(a)>>,
        AnnexTitleFrags("ANNEX", <<RomanTok(a)>>, titles)
        \o (IF heads = <<>> THEN BodyFrags(0, body)
            ELSE Concat([k \in 1..Len(heads) |->
                            <<HeadFrag(k, heads[k])>> \o BodyFrags(k, body)]))
        \o AppFrags(a, app))

AnnexShape(titles, heads, body, app, more, present) ==
    [titles |-> titles, heads |-> heads, body |-> body, app |-> app,
     more |-> more, present |-> present]

NoAnnex == AnnexShape("none", <<>>, "none", "none", FALSE, FALSE)

\* the annexes of the model: one container in every shape; a container with
\* a nested appendix or followed by a second container
AnnexShapes ==
    {AnnexShape(titles, heads, body, "none", FALSE, TRUE) :
        titles \in AnnexTitleShapes, heads \in SeqsUpTo(HeadShapes, MaxHead),
        body \in BodyShapes}
    \cup
    {AnnexShape(titles, heads, body, app, more, TRUE) :
        titles \in {"plain", "two"}, heads \in {<<>>, <<"part">>},
        body \in {"none", "para"}, app \in AppShapes, more \in BOOLEAN}

AnnexFrags(a) ==
    IF ~a.present THEN <<>>
    ELSE <<AnnexFrag(1, a.titles, a.heads, a.body, a.app)>>
            \o (IF a.more THEN <<AnnexFrag(2, "two", <<>>, "table", "none")>>
                ELSE <<>>)

\* BeautifulSoup(self.html_content, 'lxml-xml') of a document made of parts
BuildDoc(d) ==
    El("[document]", "", <<>>, <<>>,
       TitleFrags(d.title) \o PreambleFrags(d.pbl, d.cits, d.rcts)
         \o EnactFrags(d.enact) \o ConclFrags(d.concl) \o AnnexFrags(d.annex))

DocParams(titles, pbls, citss, rctss, enacts, concls, anxs) ==
    [title : titles, pbl : pbls, cits : citss, rcts : rctss, enact : enacts,
     concl : concls, annex : anxs]

\* the documents of the model: each family varies one part of the document
TitleFamily ==
    DocParams(TitleShapes, PblShapes, {<<"text">>}, {<<"ok">>}, {FlatEnact(1)},
              ConclShapes, {NoAnnex})
CitationFamily ==
    DocParams({"absent", "one"}, {"intro"}, SeqsUpTo(CitShapes, MaxCit),
              {<<"ok">>}, {FlatEnact(1)}, {"full"}, {NoAnnex})
RecitalFamily ==
    DocParams({"absent", "one"}, {"intro"}, {<<"text">>},
              SeqsUpTo(RctShapes, MaxRct), {FlatEnact(1)}, {"full"}, {NoAnnex})
EnactingFamily ==
    DocParams({"one"}, {"nointro"}, {<<>>}, {<<>>}, EnactShapes, {"absent"},
              {NoAnnex})
    \cup
    DocParams({"absent"}, {"nointro"}, {<<>>}, {<<>>},
              {e \in EnactShapes : e.plain = 0 /\ ~e.stray /\ Len(e.sects) <= 1},
              {"absent"}, {NoAnnex})
AnnexFamily ==
    DocParams({"one"}, {"nointro"}, {<<>>}, {<<>>}, {FlatEnact(0)},
              {"absent"}, AnnexShapes)
    \cup
    DocParams({"absent"}, {"nointro"}, {<<>>}, {<<>>}, {FlatEnact(0)},
              {"absent"},
              {a \in AnnexShapes : Len(a.heads) <= 1 /\ a.body = "para"})

\* documents with every part: title, preamble, an article, concluding
\* formulas and an annex, whole or in parts
FullFamily ==
    DocParams({"one"}, {"intro"}, {<<"text">>}, {<<"ok">>}, {FlatEnact(1)},
              {"full"},
              {AnnexShape("plain", heads, "para", "none", FALSE, TRUE) :
                  heads \in {<<>>, <<"part">>}})

\* documents with one article whose body combines the layout patterns
ArticleFamily ==
    DocParams({"one"}, {"nointro"}, {<<>>}, {<<>>},
              {EnactShape("bodies", 1, "ok", body, <<>>, 0, 0, FALSE) :
                  body \in ArtBodyShapes},
              {"absent"}, {NoAnnex})

Documents ==
    {BuildDoc(d) : d \in TitleFamily \cup CitationFamily \cup RecitalFamily
                            \cup EnactingFamily \cup AnnexFamily
                            \cup FullFamily \cup ArticleFamily}

(***************************************************************************)
(* RegulationChunk.to_dict and save_chunks.  The values handed to json are *)
(* tagged with their Python type; a JSON text is the value it denotes.     *)
(***************************************************************************)
PyNone == [py |-> "None"]
PyStr(s) == [py |-> "str", value |-> s]
PyList(q) == [py |-> "list", items |-> q]
PyDict(f) == [py |-> "dict", items |-> f]
PyEnum(m) == [py |-> "Enum", member |-> m]

\* a field of type Optional[str]
PyOptStr(s) == IF s = NoneVal THEN PyNone ELSE PyStr(s)

\* a field of type List[str]
PyStrList(q) == PyList([k \in 1..Len(q) |-> PyStr(q[k])])

\* SectionType.<MEMBER>.value: the members are named by their values
SectionTypeValue(member) == <<member>>

\* the value of a metadata key: citation_ids is a list of ids, the others
\* are strings
MetadataValue(key, v) ==
    CASE key = "citation_ids" -> PyStrList(v)
      [] key \in {"part", "section"} -> PyStr(<<v>>)
      [] OTHER -> PyStr(v)

\* dataclasses.asdict(chunk)
asdict(chunk) ==
    [section_type |-> PyEnum(chunk.section_type),
     number |-> PyOptStr(chunk.number),
     title |-> PyOptStr(chunk.title),
     content |-> PyStr(chunk.content),
     hierarchy_path |-> PyStrList(chunk.hierarchy_path),
     metadata |-> PyDict([k \in DOMAIN chunk.metadata |->
                             MetadataValue(k, chunk.metadata[k])])]

\* faulty variant: the section type left as the enum member
to_dict_KeepsMember(chunk) == asdict(chunk)

\* data = asdict(self); data['section_type'] = self.section_type.value
to_dict(chunk) ==
    [asdict(chunk) EXCEPT
        !.section_type = PyStr(SectionTypeValue(chunk.section_type))]

\* json can encode None, str, list and dict, not an Enum member
RECURSIVE Serializable(_)
Serializable(v) ==
    CASE v.py \in {"None", "str"} -> TRUE
      [] v.py = "list" -> \A k \in 1..Len(v.items) : Serializable(v.items[k])
      [] v.py = "dict" -> \A k \in DOMAIN v.items : Serializable(v.items[k])
      [] v.py = "Enum" -> FALSE

RECURSIVE JsonOf(_)
JsonOf(v) ==
    CASE v.py = "None" -> [json |-> "null"]
      [] v.py = "str" -> [json |-> "string", value |-> v.value]
      [] v.py = "list" ->
            [json |-> "array",
             items |-> [k \in 1..Len(v.items) |-> JsonOf(v.items[k])]]
      [] v.py = "dict" ->
            [json |-> "object",
             members |-> [k \in DOMAIN v.items |-> JsonOf(v.items[k])]]

\* what json.dump leaves when it raises TypeError
TypeError == [json |-> "TypeError"]

\* json.dump(v, f, indent=2, ensure_ascii=False)
json_dumps(v) == IF Serializable(v) THEN JsonOf(v) ELSE TypeError

\* json.loads(text)
RECURSIVE json_loads(_)
json_loads(j) ==
    CASE j.json = "null" -> PyNone
      [] j.json = "string" -> PyStr(j.value)
      [] j.json = "array" ->
            PyList([k \in 1..Len(j.items) |-> json_loads(j.items[k])])
      [] j.json = "object" ->
            PyDict([k \in DOMAIN j.members |-> json_loads(j.members[k])])

\* no file written yet
NoFile == [json |-> "no file"]

\* data = [chunk.to_dict() for chunk in self.chunks]; json.dump(data, f, ...)
save_chunks(cs) ==
    json_dumps(PyList([k \in 1..Len(cs) |-> PyDict(to_dict(cs[k]))]))

\* parse_document is not running
NoResult == [chunks |-> <<>>, toc |-> EmptyToc, done |-> FALSE]

CliOff ==
    /\ cli_pc = "off"
    /\ args = [input |-> "file", no_save |-> FALSE, print_toc |-> FALSE]
    /\ path_exists = FALSE
    /\ source_text = <<>>
    /\ parsed = NoResult
    /\ files = {}
    /\ raised = FALSE
    /\ rc = -1

\* an Optional value: None is the empty sequence
None == <<>>
Some(v) == <<v>>

\* run(): initial_state, with the questions the generator nodes have put in
InitialState(conceptual, practical, refined_conceptual, refined_practical) ==
    [chunk |-> "chunk",
     improvement_feedback |-> None,
     conceptual_qa |-> conceptual,
     practical_qa |-> practical,
     initial_validation_results |-> None,
     validation_results |-> None,
     all_valid |-> None,
     refined_conceptual_qa |-> refined_conceptual,
     refined_practical_qa |-> refined_practical,
     judge_decision |-> None,
     judge_reasoning |-> None,
     judged_qas |-> None,
     final_questions |-> <<>>,
     human_feedback |-> None,
     human_action |-> None,
     current_step |-> "init",
     errors |-> <<>>]

\* the nodes _build_graph adds
Nodes ==
    {"parallel_start", "generate_conceptual", "generate_practical",
     "validate_questions", "refine_questions", "judge_questions",
     "await_human_feedback"}

\* the names of the question dicts: what the two generators return and what
\* the refiner returns for each of them
QuestionNames == {"Q1", "Q2", "R1", "R2"}

\* a dict that has not been created: no key is present
NoDict ==
    [generator |-> None, model |-> None, focus |-> None,
     refiner_model |-> None, refinement_notes |-> None,
     source_reference |-> None]

\* no task of the step has returned
NoWrites == [generate_conceptual |-> None, generate_practical |-> None]

\* app.invoke has not been called
GraphOff ==
    /\ graph_pc = "off"
    /\ runs = [n \in Nodes |-> 0]
    /\ heap = [q \in QuestionNames |-> NoDict]
    /\ writes = NoWrites

\* no workflow is running
WorkflowOff ==
    /\ state = InitialState("None", "None", "None", "None")
    /\ validations = 0
    /\ GraphOff

\* no parser instance is in use
ParserOff ==
    /\ html_content = <<>>
    /\ soup = <<>>
    /\ chunks = <<>>
    /\ toc = EmptyToc
    /\ current_hierarchy = <<>>
    /\ regulation_title = <<>>
    /\ pc = "idle"
    /\ annexes = <<>>
    /\ annex_i = 0
    /\ calls = 0
    /\ chunks_file = NoFile

(***************************************************************************)
(* The parser instance and parse().                                        *)
(***************************************************************************)
Init ==
    /\ html_content \in Documents
    /\ soup = <<>>
    /\ chunks = <<>>
    /\ toc = EmptyToc
    /\ current_hierarchy = <<>>
    /\ regulation_title = <<>>
    /\ pc = "idle"
    /\ annexes = <<>>
    /\ annex_i = 0
    /\ calls = 0
    /\ chunks_file = NoFile
    /\ CliOff
    /\ WorkflowOff

\* faulty variant: parse() starts from an empty chunk list and TOC
ParseStart_Resets ==
    /\ pc = "idle"
    /\ calls < MaxParseCalls
    /\ soup' = html_content
    /\ chunks' = <<>>
    /\ toc' = EmptyToc
    /\ pc' = "title"
    /\ UNCHANGED <<cli_vars, workflow_vars, chunks_file, html_content, current_hierarchy, regulation_title, annexes,
                   annex_i, calls>>

\* parse(): self.soup = BeautifulSoup(self.html_content, 'lxml-xml')
ParseStart ==
    /\ pc = "idle"
    /\ calls < MaxParseCalls
    /\ soup' = html_content
    /\ pc' = "title"
    /\ UNCHANGED <<cli_vars, workflow_vars, chunks_file, html_content, chunks, toc, current_hierarchy,
                   regulation_title, annexes, annex_i, calls>>

ParseTitle ==
    /\ pc = "title"
    /\ \E r \in {_parse_title(soup, chunks, toc, regulation_title)} :
           /\ chunks' = r.chunks
           /\ toc' = r.toc
           /\ regulation_title' = r.regulation_title
    /\ pc' = "preamble"
    /\ UNCHANGED <<cli_vars, workflow_vars, chunks_file, html_content, soup, current_hierarchy, annexes, annex_i, calls>>

ParsePreamble ==
    /\ pc = "preamble"
    /\ \E r \in {_parse_preamble(soup, chunks, toc, regulation_title)} :
           /\ chunks' = r.chunks
           /\ toc' = r.toc
    /\ pc' = "enacting_terms"
    /\ UNCHANGED <<cli_vars, workflow_vars, chunks_file, html_content, soup, current_hierarchy, regulation_title,
                   annexes, annex_i, calls>>

ParseEnactingTerms ==
    /\ pc = "enacting_terms"
    /\ \E r \in {_parse_enacting_terms(soup, chunks, toc, regulation_title,
                                       current_hierarchy)} :
           /\ chunks' = r.chunks
           /\ toc' = r.toc
           /\ current_hierarchy' = r.current_hierarchy
    /\ pc' = "concluding_formulas"
    /\ UNCHANGED <<cli_vars, workflow_vars, chunks_file, html_content, soup, regulation_title, annexes, annex_i, calls>>

\* _parse_concluding_formulas, then the entry of _parse_annexes, which lists
\* the containers
ParseConcludingFormulas ==
    /\ pc = "concluding_formulas"
    /\ \E r \in {_parse_concluding_formulas(soup, chunks, toc, regulation_title)} :
           /\ chunks' = r.chunks
           /\ toc' = r.toc
    /\ annexes' = AnnexContainers(soup)
    /\ annex_i' = 1
    /\ pc' = "annexes"
    /\ UNCHANGED <<cli_vars, workflow_vars, chunks_file, html_content, soup, current_hierarchy, regulation_title, calls>>

\* faulty variant: the iteration puts what it emits in front of the lists
ParseAnnex_Prepends ==
    /\ pc = "annexes"
    /\ annex_i <= Len(annexes)
    /\ \E r \in {AnnexStep(soup, annexes[annex_i], <<>>, EmptyToc, regulation_title)} :
           /\ soup' = r.soup
           /\ chunks' = r.chunks \o chunks
           /\ toc' = [toc EXCEPT !.sections = r.toc.sections \o @]
    /\ annex_i' = annex_i + 1
    /\ UNCHANGED <<cli_vars, workflow_vars, chunks_file, html_content, current_hierarchy, regulation_title, pc,
                   annexes, calls>>

\* one iteration of _parse_annexes' loop
ParseAnnex ==
    /\ pc = "annexes"
    /\ annex_i <= Len(annexes)
    /\ \E r \in {AnnexStep(soup, annexes[annex_i], chunks, toc, regulation_title)} :
           /\ soup' = r.soup
           /\ chunks' = r.chunks
           /\ toc' = r.toc
    /\ annex_i' = annex_i + 1
    /\ UNCHANGED <<cli_vars, workflow_vars, chunks_file, html_content, current_hierarchy, regulation_title, pc,
                   annexes, calls>>

\* the end of _parse_annexes and parse()'s return
ParseReturn ==
    /\ pc = "annexes"
    /\ annex_i > Len(annexes)
    /\ pc' = "idle"
    /\ calls' = calls + 1
    /\ UNCHANGED <<cli_vars, workflow_vars, chunks_file, html_content, soup, chunks, toc, current_hierarchy,
                   regulation_title, annexes, annex_i>>

\* save_chunks(filepath), called between parses once one has returned
SaveChunks ==
    /\ pc = "idle"
    /\ calls >= 1
    /\ chunks_file' = save_chunks(chunks)
    /\ UNCHANGED <<cli_vars, workflow_vars, html_content, soup, chunks, toc, current_hierarchy,
                   regulation_title, pc, annexes, annex_i, calls>>

Next ==
    \/ ParseStart
    \/ ParseTitle
    \/ ParsePreamble
    \/ ParseEnactingTerms
    \/ ParseConcludingFormulas
    \/ ParseAnnex
    \/ ParseReturn
    \/ SaveChunks

Spec == Init /\ [][Next]_vars

(***************************************************************************)
(* cli.parse_document(input_source, output_dir, ..., print_toc, no_save)   *)
(***************************************************************************)
\* the tree of a text without markup
EmptyDocument == El("[document]", "", <<>>, <<>>, <<>>)

RECURSIVE AnnexLoop(_, _, _, _, _, _)

\* the rest of _parse_annexes' loop after the step with result r
AnnexRest(r, anx, i, reg) == AnnexLoop(r.soup, anx, i, r.chunks, r.toc, reg)

\* the loop of _parse_annexes over containers i.. of anx
AnnexLoop(doc, anx, i, cs, tc, reg) ==
    IF i > Len(anx) THEN [chunks |-> cs, toc |-> tc, done |-> TRUE]
    ELSE AnnexRest(AnnexStep(doc, anx[i], cs, tc, reg), anx, i + 1, reg)

\* the chunks and TOC of one parse() of doc on a new parser instance
ParseOnce(doc) ==
    LET AfterConcluding(reg, r) ==
            AnnexLoop(doc, AnnexContainers(doc), 1, r.chunks, r.toc, reg)
        AfterEnacting(reg, r) ==
            AfterConcluding(reg,
                _parse_concluding_formulas(doc, r.chunks, r.toc, reg))
        AfterPreamble(reg, r) ==
            AfterEnacting(reg,
                _parse_enacting_terms(doc, r.chunks, r.toc, reg, <<>>))
        AfterTitle(r) ==
            AfterPreamble(r.regulation_title,
                _parse_preamble(doc, r.chunks, r.toc, r.regulation_title))
    IN  AfterTitle(_parse_title(doc, <<>>, EmptyToc, <<>>))

\* the documents a file or a URL of the model holds
CliDocuments == {BuildDoc(d) : d \in FullFamily}

CliInit ==
    /\ ParserOff
    /\ WorkflowOff
    /\ cli_pc = "start"
    /\ args \in [input : {"url", "file"}, no_save : BOOLEAN, print_toc : BOOLEAN]
    /\ path_exists \in BOOLEAN
    /\ source_text \in {<<>>} \cup CliDocuments
    /\ parsed = NoResult
    /\ files = {}
    /\ raised = FALSE
    /\ rc = -1

\* lines 127-142: a URL goes to the parser as it is; a missing file returns
\* 1; an existing file is read, which may raise
CliOpen ==
    /\ cli_pc = "start"
    /\ IF args.input = "url"
       THEN cli_pc' = "parse" /\ UNCHANGED <<raised, rc>>
       ELSE IF ~path_exists
       THEN cli_pc' = "done" /\ rc' = 1 /\ UNCHANGED raised
       ELSE \E ok \in BOOLEAN :
               /\ cli_pc' = IF ok THEN "parse" ELSE "except"
               /\ raised' = ~ok
               /\ UNCHANGED rc
    /\ UNCHANGED <<args, path_exists, source_text, parsed, files>>
    /\ UNCHANGED <<parser_vars, workflow_vars>>

\* lines 144-162: parser.parse() (for a URL after fetch(), which may raise;
\* for a file after the check that the text is not empty), the statistics
\* and the TOC listing
CliParse ==
    /\ cli_pc = "parse"
    /\ \E fetched \in BOOLEAN :
          IF (args.input = "url" /\ ~fetched)
               \/ (args.input = "file" /\ source_text = <<>>)
          THEN cli_pc' = "except" /\ raised' = TRUE /\ UNCHANGED parsed
          ELSE /\ parsed' = ParseOnce(IF source_text = <<>> THEN EmptyDocument
                                      ELSE source_text)
               /\ cli_pc' = IF args.no_save THEN "return" ELSE "save"
               /\ UNCHANGED raised
    /\ UNCHANGED <<args, path_exists, source_text, files, rc>>
    /\ UNCHANGED <<parser_vars, workflow_vars>>

\* what exists in the output directory when the step named by failure
\* raises: mkdir, the writing of the chunks file or of the TOC file
FilesAfter(failure) ==
    CASE failure = "mkdir" -> {{}}
      [] failure = "chunks" -> {{"dir"}, {"dir", "chunks"}}
      [] failure = "toc" -> {{"dir", "chunks"}, {"dir", "chunks", "toc"}}
      [] failure = "none" -> {{"dir", "chunks", "toc"}}

\* lines 165-180: mkdir, save_chunks, save_toc
CliSave ==
    /\ cli_pc = "save"
    /\ \E failure \in {"none", "mkdir", "chunks", "toc"} :
          /\ files' \in FilesAfter(failure)
          /\ raised' = (failure # "none")
          /\ cli_pc' = IF failure = "none" THEN "return" ELSE "except"
    /\ UNCHANGED <<args, path_exists, source_text, parsed, rc>>
    /\ UNCHANGED <<parser_vars, workflow_vars>>

\* faulty variant: the handler reports the error and returns 0
CliExcept_ReturnsZero ==
    /\ cli_pc = "except"
    /\ rc' = 0
    /\ cli_pc' = "done"
    /\ UNCHANGED <<args, path_exists, source_text, parsed, files, raised>>
    /\ UNCHANGED <<parser_vars, workflow_vars>>

\* lines 184-189: except Exception: ... return 1
CliExcept ==
    /\ cli_pc = "except"
    /\ rc' = 1
    /\ cli_pc' = "done"
    /\ UNCHANGED <<args, path_exists, source_text, parsed, files, raised>>
    /\ UNCHANGED <<parser_vars, workflow_vars>>

\* line 182: return 0
CliReturn ==
    /\ cli_pc = "return"
    /\ rc' = 0
    /\ cli_pc' = "done"
    /\ UNCHANGED <<args, path_exists, source_text, parsed, files, raised>>
    /\ UNCHANGED <<parser_vars, workflow_vars>>

CliNext ==
    \/ CliOpen
    \/ CliParse
    \/ CliSave
    \/ CliExcept
    \/ CliReturn

SpecCli == CliInit /\ [][CliNext]_vars

(***************************************************************************)
(* QuizGenerationWorkflow._validate_questions.  A question is named by a   *)
(* string: "None", "{}" (an empty dict) or the name of a non-empty dict.   *)
(***************************************************************************)
\* bool(q) of a question
Truthy(q) == q \notin {"None", "{}"}

\* a or b
Or(a, b) == IF Truthy(a) THEN a ELSE b

\* the refined question if there is one, else the original
Conceptual(s) == Or(s.refined_conceptual_qa, s.conceptual_qa)
Practical(s) == Or(s.refined_practical_qa, s.practical_qa)

\* questions_to_validate and question_types
QuestionsToValidate(s) ==
    (IF Truthy(Conceptual(s)) THEN <<Conceptual(s)>> ELSE <<>>)
      \o (IF Truthy(Practical(s)) THEN <<Practical(s)>> ELSE <<>>)

QuestionTypes(s) ==
    (IF Truthy(Conceptual(s)) THEN <<"conceptual">> ELSE <<>>)
      \o (IF Truthy(Practical(s)) THEN <<"practical">> ELSE <<>>)

\* what Validator.validate returns for one question: the JSON object of the
\* model's answer, with or without a "valid" key
ValidatorResults ==
    {[valid |-> TRUE, score |-> 10], [valid |-> TRUE, score |-> 9],
     [valid |-> FALSE, score |-> 5], [score |-> 5]}

\* validate_batch(qas): one result for each question
BatchResults(n) == [1..n -> ValidatorResults]

\* a result with a note of the question it was computed for ("qa" is not a
\* key of the object: it names the prompt the answer was given to)
ResultFor(result, q) ==
    [k \in DOMAIN result \cup {"qa"} |-> IF k = "qa" THEN q ELSE result[k]]

\* [self.validate(qa, chunk) for qa in qas], when no call raises
validate_batch(qas) ==
    {[i \in 1..Len(qas) |-> ResultFor(results[i], qas[i])] :
        results \in BatchResults(Len(qas))}

\* val_result["question_type"] = question_types[i]
WithQuestionType(results, types) ==
    [i \in 1..Len(results) |->
        [k \in DOMAIN results[i] \cup {"question_type"} |->
            IF k = "question_type" THEN types[i] ELSE results[i][k]]]

HasValid(v) == "valid" \in DOMAIN v

\* all(v["valid"] for v in validation_results) raises KeyError when it
\* reaches a result without the key before a result that is not valid
AllRaises(results) ==
    \E i \in 1..Len(results) :
        /\ ~HasValid(results[i])
        /\ \A j \in 1..(i - 1) : results[j].valid

\* the value of all(...) when it does not raise
AllValid(results) ==
    \A i \in 1..Len(results) : HasValid(results[i]) /\ results[i].valid

\* the list comprehension over zip(...) raises KeyError when some result
\* has no "valid" key
FinalRaises(results) == \E i \in 1..Len(results) : ~HasValid(results[i])

\* faulty variant: every validated question is kept
ValidQuestions_All(questions, results) == questions

\* [q for q, v in zip(questions_to_validate, validation_results) if v["valid"]]
RECURSIVE ValidQuestions(_, _)
ValidQuestions(questions, results) ==
    IF questions = <<>> \/ results = <<>> THEN <<>>
    ELSE (IF Head(results).valid THEN <<Head(questions)>> ELSE <<>>)
           \o ValidQuestions(Tail(questions), Tail(results))

\* the except branch: errors.append(f"Validation error: {str(e)}")
WithError(s) == [s EXCEPT !.errors = Append(@, "Validation error")]

\* the state after the validator returned results for the questions
Validated(s, questions, results) ==
    IF AllRaises(results)
    THEN WithError([s EXCEPT !.initial_validation_results = Some(results),
                             !.validation_results = Some(results)])
    ELSE IF FinalRaises(results)
    THEN WithError([s EXCEPT !.initial_validation_results = Some(results),
                             !.validation_results = Some(results),
                             !.all_valid = Some(AllValid(results))])
    ELSE [s EXCEPT !.initial_validation_results = Some(results),
                   !.validation_results = Some(results),
                   !.all_valid = Some(AllValid(results)),
                   !.final_questions = ValidQuestions(questions, results)]

\* the state when there is no question to validate
NothingToValidate(s) ==
    [s EXCEPT !.validation_results = Some(<<>>),
              !.all_valid = Some(FALSE),
              !.final_questions = <<>>]

WorkflowInit ==
    /\ ParserOff
    /\ CliOff
    /\ state \in {InitialState(c, p, refined_c, refined_p) :
                     c \in {"None", "{}", "Q1"}, p \in {"None", "{}", "Q2"},
                     refined_c \in {"None", "R1"}, refined_p \in {"None", "R2"}}
    /\ validations = 0
    /\ GraphOff

\* the body of the try block after current_step is set: validate_batch
\* raises or returns one result for each question
ValidateFrom(s) ==
    IF QuestionsToValidate(s) = <<>>
    THEN {NothingToValidate(s)}
    ELSE {WithError(s)}
           \cup {Validated(s, QuestionsToValidate(s),
                           WithQuestionType(results, QuestionTypes(s))) :
                    results \in validate_batch(QuestionsToValidate(s))}

\* _validate_questions(state): the states it can return
_validate_questions(s) ==
    ValidateFrom([s EXCEPT !.current_step = "validate_questions"])

\* _validate_questions called on a state
ValidateQuestions ==
    /\ validations < MaxValidations
    /\ validations' = validations + 1
    /\ state' \in _validate_questions(state)
    /\ UNCHANGED <<parser_vars, cli_vars, graph_pc, runs, heap, writes>>

WorkflowNext == ValidateQuestions

SpecWorkflow == WorkflowInit /\ [][WorkflowNext]_vars

(***************************************************************************)
(* QuizGenerationWorkflow.run: the compiled graph of _build_graph.  The    *)
(* graph runs in steps: the nodes of one step read the same state, and     *)
(* what they return is written to the state when all of them have          *)
(* returned.  A key of QuizGenerationState declared without a reducer      *)
(* takes one value in a step.                                              *)
(***************************************************************************)
\* one more run of node n
Ran(n) == [runs EXCEPT ![n] = @ + 1]

\* the "focus" key of the JSON object a model answers with
FocusValues == {None, Some("conceptual"), Some("practical")}

\* ConceptualGenerator.generate: the model's JSON object with
\* result["generator"] = "conceptual" and result["model"] = self.model
ConceptualDict(focus) ==
    [NoDict EXCEPT !.generator = Some("conceptual"),
                   !.model = Some("gpt-4o"),
                   !.focus = focus]

\* PracticalGenerator.generate
PracticalDict(focus) ==
    [NoDict EXCEPT !.generator = Some("practical"),
                   !.model = Some("claude-sonnet-4-20250514"),
                   !.focus = focus]

\* run(): initial_state handed to app.invoke, whose entry point is
\* parallel_start
RunInit ==
    /\ ParserOff
    /\ CliOff
    /\ state = InitialState("None", "None", "None", "None")
    /\ validations = 0
    /\ graph_pc = "parallel_start"
    /\ runs = [n \in Nodes |-> 0]
    /\ heap = [q \in QuestionNames |-> NoDict]
    /\ writes = NoWrites

\* parallel_start: lambda state: {}, with edges to both generators
ParallelStart ==
    /\ graph_pc = "parallel_start"
    /\ runs["parallel_start"] < MaxNodeRuns
    /\ graph_pc' = "generate"
    /\ runs' = Ran("parallel_start")
    /\ writes' = NoWrites
    /\ UNCHANGED <<parser_vars, cli_vars, state, validations, heap>>

\* _generate_conceptual(state): {"conceptual_qa": ...} or, when generate
\* raises, {"errors": [...]}
GenerateConceptual ==
    /\ graph_pc = "generate"
    /\ writes.generate_conceptual = None
    /\ runs["generate_conceptual"] < MaxNodeRuns
    /\ runs' = Ran("generate_conceptual")
    /\ \/ /\ writes' = [writes EXCEPT !.generate_conceptual =
                           Some([errors |-> <<"Conceptual generation error">>])]
          /\ UNCHANGED heap
       \/ \E focus \in FocusValues :
             /\ heap' = [heap EXCEPT !["Q1"] = ConceptualDict(focus)]
             /\ writes' = [writes EXCEPT !.generate_conceptual =
                              Some([conceptual_qa |-> "Q1"])]
    /\ UNCHANGED <<parser_vars, cli_vars, state, validations, graph_pc>>

\* _generate_practical(state)
GeneratePractical ==
    /\ graph_pc = "generate"
    /\ writes.generate_practical = None
    /\ runs["generate_practical"] < MaxNodeRuns
    /\ runs' = Ran("generate_practical")
    /\ \/ /\ writes' = [writes EXCEPT !.generate_practical =
                           Some([errors |-> <<"Practical generation error">>])]
          /\ UNCHANGED heap
       \/ \E focus \in FocusValues :
             /\ heap' = [heap EXCEPT !["Q2"] = PracticalDict(focus)]
             /\ writes' = [writes EXCEPT !.generate_practical =
                              Some([practical_qa |-> "Q2"])]
    /\ UNCHANGED <<parser_vars, cli_vars, state, validations, graph_pc>>

\* the state with the updates u and v of two tasks written to it
Updated(s, u, v) ==
    [k \in DOMAIN s |->
        IF k \in DOMAIN u THEN u[k] ELSE IF k \in DOMAIN v THEN v[k] ELSE s[k]]

\* the end of the generators' step: both updates are written, and the edges
\* of both generators lead to validate_questions; two values for one key
\* are refused (InvalidUpdateError), which app.invoke and run() let through
ApplyWrites ==
    /\ graph_pc = "generate"
    /\ writes.generate_conceptual # None
    /\ writes.generate_practical # None
    /\ IF DOMAIN writes.generate_conceptual[1]
            \cap DOMAIN writes.generate_practical[1] # {}
       THEN /\ graph_pc' = "raised"
            /\ UNCHANGED state
       ELSE /\ graph_pc' = "validate_questions"
            /\ state' = Updated(state, writes.generate_conceptual[1],
                                writes.generate_practical[1])
    /\ writes' = NoWrites
    /\ UNCHANGED <<parser_vars, cli_vars, validations, runs, heap>>


\* the except branches: errors.append(f"<Node> error: {str(e)}")
WithErrorOf(s, message) == [s EXCEPT !.errors = Append(@, message)]

\* validate_questions: the node returns the state it was given, changed
RunValidate ==
    /\ graph_pc = "validate_questions"
    /\ runs["validate_questions"] < MaxNodeRuns
    /\ runs' = Ran("validate_questions")
    /\ validations' = validations + 1
    /\ state' \in _validate_questions(state)
    /\ graph_pc' = "refine_questions"
    /\ UNCHANGED <<parser_vars, cli_vars, heap, writes>>

(***************************************************************************)
(* Refiner.refine and refine_batch.                                        *)
(***************************************************************************)
\* is_perfect: valid, no warnings, no issues, score 10 (the results of the
\* model carry no "warnings" and no "issues" key, and .get gives [])
IsPerfect(validation_result) ==
    /\ HasValid(validation_result)
    /\ validation_result.valid
    /\ validation_result.score = 10

\* what the refiner's model does when it is asked: the call or json.loads
\* raises, or the answer is a JSON object with some "focus"
RefinerAnswers ==
    {[raises |-> TRUE, focus |-> None]}
      \cup {[raises |-> FALSE, focus |-> f] : f \in FocusValues}

\* the dict refine builds for question q is a new object
RefinedName(q) == IF q = "Q1" THEN "R1" ELSE "R2"

\* qa.get(key, "unknown")
GetOrUnknown(value) == IF value = None THEN Some("unknown") ELSE value

\* result["refiner_model"] = self.model; result["generator"] and
\* result["model"] are taken from the original
RefinedDict(qa, focus) ==
    [NoDict EXCEPT !.focus = focus,
                   !.refinement_notes = Some("fixed"),
                   !.refiner_model = Some("gpt-4o"),
                   !.generator = GetOrUnknown(qa.generator),
                   !.model = GetOrUnknown(qa.model)]

\* refine(qa, validation_result, chunk) on the dicts h: whether it raises,
\* the dicts afterwards and the name of the dict it returns
refine(q, validation_result, answer, h) ==
    IF IsPerfect(validation_result)
    THEN [raises |-> FALSE,
          heap |-> [h EXCEPT ![q].refinement_notes = Some("No refinement needed")],
          out |-> <<q>>]
    ELSE IF answer.raises
    THEN [raises |-> TRUE, heap |-> h, out |-> <<>>]
    ELSE [raises |-> FALSE,
          heap |-> [h EXCEPT ![RefinedName(q)] = RefinedDict(h[q], answer.focus)],
          out |-> <<RefinedName(q)>>]

\* zip stops at the end of the shorter list
ZipLen(a, b) == IF Len(a) < Len(b) THEN Len(a) ELSE Len(b)

\* [self.refine(qa, val_result, chunk) for qa, val_result in zip(...)],
\* from pair i on, with the list built so far
RECURSIVE refine_batch(_, _, _, _, _, _), RefineNext(_, _, _, _, _, _)
refine_batch(qas, validation_results, answers, i, h, out) ==
    IF i > ZipLen(qas, validation_results)
    THEN [raises |-> FALSE, heap |-> h, out |-> out]
    ELSE RefineNext(qas, validation_results, answers, i, out,
                    refine(qas[i], validation_results[i], answers[i], h))

\* the step of refine_batch after pair i was refined with result r
RefineNext(qas, validation_results, answers, i, out, r) ==
    IF r.raises
    THEN [raises |-> TRUE, heap |-> r.heap, out |-> out]
    ELSE refine_batch(qas, validation_results, answers, i + 1, r.heap,
                      out \o r.out)

(***************************************************************************)
(* QuizGenerationWorkflow._refine_questions.                               *)
(***************************************************************************)
\* questions_to_refine: the original questions that are there
QuestionsToRefine(s) ==
    (IF Truthy(s.conceptual_qa) THEN <<s.conceptual_qa>> ELSE <<>>)
      \o (IF Truthy(s.practical_qa) THEN <<s.practical_qa>> ELSE <<>>)

\* "refiner_model" in refined_questions[i]
WasRefined(refined, i, h) == h[refined[i]].refiner_model # None

\* the refined questions stored back: the first as the conceptual one
StoredConceptual(s, refined, h) ==
    IF Len(refined) > 0 /\ Truthy(s.conceptual_qa) /\ WasRefined(refined, 1, h)
    THEN [s EXCEPT !.refined_conceptual_qa = refined[1]]
    ELSE s

\* ... and the second, or the only one, as the practical one
StoredPractical(s, refined, h) ==
    IF Len(refined) > 1 /\ Truthy(s.practical_qa)
    THEN IF WasRefined(refined, 2, h)
         THEN [s EXCEPT !.refined_practical_qa = refined[2]]
         ELSE s
    ELSE IF /\ Len(refined) = 1
            /\ Truthy(s.practical_qa)
            /\ ~Truthy(s.conceptual_qa)
            /\ WasRefined(refined, 1, h)
    THEN [s EXCEPT !.refined_practical_qa = refined[1]]
    ELSE s

Stored(s, refined, h) == StoredPractical(StoredConceptual(s, refined, h), refined, h)

\* questions_to_revalidate and its question_types
QuestionsToRevalidate(s) ==
    (IF Truthy(s.refined_conceptual_qa) THEN <<s.refined_conceptual_qa>>
     ELSE IF Truthy(s.conceptual_qa) THEN <<s.conceptual_qa>> ELSE <<>>)
      \o (IF Truthy(s.refined_practical_qa) THEN <<s.refined_practical_qa>>
          ELSE IF Truthy(s.practical_qa) THEN <<s.practical_qa>> ELSE <<>>)

RevalidateTypes(s) ==
    (IF Truthy(s.refined_conceptual_qa) \/ Truthy(s.conceptual_qa)
     THEN <<"conceptual">> ELSE <<>>)
      \o (IF Truthy(s.refined_practical_qa) \/ Truthy(s.practical_qa)
          THEN <<"practical">> ELSE <<>>)

\* the state after the validator returned results for the refined questions
Revalidated(s, results) ==
    IF AllRaises(results)
    THEN WithErrorOf([s EXCEPT !.validation_results = Some(results)],
                     "Refinement error")
    ELSE [s EXCEPT !.validation_results = Some(results),
                   !.all_valid = Some(AllValid(results))]

\* "Re-validate refined questions": nothing when no refined question is
\* stored; else validate_batch raises or returns one result for each
Revalidation(s) ==
    IF ~(Truthy(s.refined_conceptual_qa) \/ Truthy(s.refined_practical_qa))
    THEN {s}
    ELSE {WithErrorOf(s, "Refinement error")}
           \cup {Revalidated(s, WithQuestionType(results, RevalidateTypes(s))) :
                    results \in validate_batch(QuestionsToRevalidate(s))}

\* the rest of the try block after refine_batch ended with rb
AfterRefine(s, rb) ==
    IF rb.raises
    THEN {[state |-> WithErrorOf(s, "Refinement error"), heap |-> rb.heap]}
    ELSE {[state |-> x, heap |-> rb.heap] :
             x \in Revalidation(Stored(s, rb.out, rb.heap))}

\* the try block after current_step is set; zip raises TypeError when
\* validation_results is None
RefineFrom(s, h) ==
    IF s.validation_results = None
    THEN {[state |-> WithErrorOf(s, "Refinement error"), heap |-> h]}
    ELSE UNION {AfterRefine(s, refine_batch(QuestionsToRefine(s),
                                  s.validation_results[1], answers, 1, h, <<>>)) :
                  answers \in [1..Len(QuestionsToRefine(s)) -> RefinerAnswers]}

\* _refine_questions(state): the states it can return, with the dicts
_refine_questions(s, h) ==
    RefineFrom([s EXCEPT !.current_step = "refine_questions"], h)

\* refine_questions
RunRefine ==
    /\ graph_pc = "refine_questions"
    /\ runs["refine_questions"] < MaxNodeRuns
    /\ runs' = Ran("refine_questions")
    /\ \E r \in _refine_questions(state, heap) :
          /\ state' = r.state
          /\ heap' = r.heap
    /\ graph_pc' = "judge_questions"
    /\ UNCHANGED <<parser_vars, cli_vars, validations, writes>>

(***************************************************************************)
(* QuizGenerationWorkflow._judge_questions, _await_human_feedback and      *)
(* _route_after_human_feedback.                                            *)
(***************************************************************************)
Decisions ==
    {"accept_both", "accept_conceptual", "accept_practical", "reject_both"}

\* what Judge.judge does: the call or json.loads raises, or it returns the
\* model's JSON object, which has a "decision" (one of the four or another
\* string) and a "reasoning" or lacks them
JudgeAnswers ==
    {[raises |-> TRUE, decision |-> None, reasoning |-> FALSE]}
      \cup {[raises |-> FALSE, decision |-> d, reasoning |-> r] :
               d \in {None} \cup {Some(x) : x \in Decisions \cup {"undecided"}},
               r \in BOOLEAN}

\* final_questions by the judge's decision
Selection(decision, conceptual_qa, practical_qa) ==
    IF decision = "accept_both" THEN <<conceptual_qa, practical_qa>>
    ELSE IF decision = "accept_conceptual" THEN <<conceptual_qa>>
    ELSE IF decision = "accept_practical" THEN <<practical_qa>>
    ELSE <<>>

\* "generator" not in q or not q["generator"]
LacksGenerator(qa) == qa.generator \in {None, Some("")}

\* the body of the loop for one accepted question: generator and model by
\* the question's focus when it has no generator, then source_reference
\* from the chunk's hierarchy_path
WithMetadata(qa) ==
    [(IF LacksGenerator(qa) /\ qa.focus = Some("conceptual")
      THEN [qa EXCEPT !.generator = Some("conceptual"),
                      !.model = Some("gpt-4o")]
      ELSE IF LacksGenerator(qa) /\ qa.focus = Some("practical")
      THEN [qa EXCEPT !.generator = Some("practical"),
                      !.model = Some("claude-sonnet-4-20250514")]
      ELSE qa)
     EXCEPT !.source_reference = Some("Regulation > Chapter 2 > Article 2")]

\* for q in final_questions, from question i on: "generator" not in None
\* raises TypeError
RECURSIVE AddMetadata(_, _, _)
AddMetadata(final_questions, i, h) ==
    IF i > Len(final_questions) THEN [raises |-> FALSE, heap |-> h]
    ELSE IF final_questions[i] = "None" THEN [raises |-> TRUE, heap |-> h]
    ELSE AddMetadata(final_questions, i + 1,
                     [h EXCEPT ![final_questions[i]] = WithMetadata(@)])

\* the end of the try block, after the loop ended with m
Judged(s, final_questions, m) ==
    IF m.raises
    THEN [state |-> WithErrorOf(s, "Judge error"), heap |-> m.heap]
    ELSE [state |-> [s EXCEPT !.final_questions = final_questions,
                              !.judged_qas = Some(final_questions)],
          heap |-> m.heap]

\* the try block after the judge returned a result with a decision and a
\* reasoning
JudgeFrom(s, decision, h) ==
    Judged([s EXCEPT !.judge_decision = Some(decision),
                     !.judge_reasoning = Some("reasoning"),
                     !.current_step = "judge_questions"],
           Selection(decision, Conceptual(s), Practical(s)),
           AddMetadata(Selection(decision, Conceptual(s), Practical(s)), 1, h))

\* _judge_questions(state) when the judge answers with answer
JudgeWith(s, answer, h) ==
    IF answer.raises \/ answer.decision = None
    THEN [state |-> WithErrorOf(s, "Judge error"), heap |-> h]
    ELSE IF ~answer.reasoning
    THEN [state |-> WithErrorOf([s EXCEPT !.judge_decision = answer.decision],
                                "Judge error"),
          heap |-> h]
    ELSE JudgeFrom(s, answer.decision[1], h)

\* _judge_questions(state): the states it can return, with the dicts
_judge_questions(s, h) == {JudgeWith(s, answer, h) : answer \in JudgeAnswers}

\* judge_questions
RunJudge ==
    /\ graph_pc = "judge_questions"
    /\ runs["judge_questions"] < MaxNodeRuns
    /\ runs' = Ran("judge_questions")
    /\ \E r \in _judge_questions(state, heap) :
          /\ state' = r.state
          /\ heap' = r.heap
    /\ graph_pc' = "await_human_feedback"
    /\ UNCHANGED <<parser_vars, cli_vars, validations, writes>>

\* faulty variant: questions that are not all valid are sent back for
\* another round
_await_human_feedback_Improve(s) ==
    [s EXCEPT !.current_step = "await_human_feedback",
              !.human_action = IF s.all_valid = Some(TRUE)
                               THEN Some("accept") ELSE Some("improve")]

\* faulty variant: the action follows the judge's selection
_await_human_feedback_ByJudge(s) ==
    [s EXCEPT !.current_step = "await_human_feedback",
              !.human_action = IF s.final_questions # <<>>
                               THEN Some("accept") ELSE Some("reject")]

\* _await_human_feedback(state): "auto-accept if all valid"
_await_human_feedback(s) ==
    [s EXCEPT !.current_step = "await_human_feedback",
              !.human_action = IF s.all_valid = Some(TRUE)
                               THEN Some("accept") ELSE Some("reject")]

\* _route_after_human_feedback(state); a missing action is "reject"
_route_after_human_feedback(s) ==
    IF s.human_action = Some("accept") THEN "accept"
    ELSE IF s.human_action = Some("improve") THEN "improve"
    ELSE "reject"

\* add_conditional_edges: where each answer of the routing function leads
EdgeOf(route) == IF route = "improve" THEN "parallel_start" ELSE "END"

\* await_human_feedback and the conditional edge behind it
RunAwait ==
    /\ graph_pc = "await_human_feedback"
    /\ runs["await_human_feedback"] < MaxNodeRuns
    /\ runs' = Ran("await_human_feedback")
    /\ state' = _await_human_feedback(state)
    /\ graph_pc' = EdgeOf(_route_after_human_feedback(state'))
    /\ UNCHANGED <<parser_vars, cli_vars, validations, heap, writes>>

RunNext ==
    \/ ParallelStart
    \/ GenerateConceptual
    \/ GeneratePractical
    \/ ApplyWrites
    \/ RunValidate
    \/ RunRefine
    \/ RunJudge
    \/ RunAwait

SpecRun == RunInit /\ [][RunNext]_vars

(***************************************************************************)
(* Properties.                                                             *)
(***************************************************************************)
Last(q) == q[Len(q)]

\* the first parse() of the instance has returned and no other has begun
FirstParseDone == pc = "idle" /\ calls = 1

ChunkIndices(type) == {k \in 1..Len(chunks) : chunks[k].section_type = type}

\* the chunks that carry the id of a markup element
ChunksOfId(id) == {k \in 1..Len(chunks) : chunks[k].metadata.id = id}

IsPartChunk(c) ==
    "part" \in DOMAIN c.metadata \/ "section" \in DOMAIN c.metadata

\* C1: every chunk's hierarchy_path is a non-empty list.
C1_PathNonEmpty ==
    \A k \in 1..Len(chunks) : chunks[k].hierarchy_path # <<>>

C1_Witness ==
    /\ FirstParseDone
    /\ ChunkIndices("title") # {}
    /\ ChunkIndices("recital") # {}
    /\ ChunkIndices("article") # {}

\* C2 as stated: the last element of every chunk's hierarchy_path equals the
\* chunk's title.
C2_LastIsTitle ==
    \A k \in 1..Len(chunks) :
        chunks[k].hierarchy_path # <<>>
            /\ Last(chunks[k].hierarchy_path) = chunks[k].title

\* C2 amended: the last element of hierarchy_path equals the chunk's title,
\* except for the chunk of an annex part or section, whose path ends with
\* the text of the part heading and whose title is the element before it,
\* " - ", and that heading text.
C2_LastIsTitleOrPartHeading ==
    \A k \in 1..Len(chunks) :
        LET c == chunks[k]
            n == Len(c.hierarchy_path)
        IN  IF IsPartChunk(c)
            THEN /\ n >= 2
                 /\ c.title = c.hierarchy_path[n-1] \o <<WS, "-", WS>>
                                \o c.hierarchy_path[n]
                 /\ c.hierarchy_path[n] # c.title
            ELSE n >= 1 /\ c.hierarchy_path[n] = c.title

C2_Witness ==
    /\ FirstParseDone
    /\ \E k \in 1..Len(chunks) : IsPartChunk(chunks[k])
    /\ \E k \in 1..Len(chunks) :
          chunks[k].section_type = "annex" /\ ~IsPartChunk(chunks[k])

\* the article elements of the input: id art_N and a heading "Article N"
ArticleElements ==
    {a \in Subdivisions(html_content, "art") :
        LET h == find(html_content, a, ByClass(html_content, "p", "oj-ti-art"))
        IN  h # 0 /\ ArticleMatches(_clean_text(get_text(html_content, h))) # {}}

\* C3: after the parse, every article element of the input has exactly one
\* article chunk, wherever the element sits.
C3_OneChunkPerArticle ==
    FirstParseDone =>
        \A a \in ArticleElements :
            Cardinality(ChunksOfId(html_content[a].id)
                          \cap ChunkIndices("article")) = 1

\* the chapter or section container that encloses element e, or 0
Encloser(e, M) ==
    LET up == {c \in M : IsAncestor(html_content, c, e)}
    IN  IF up = {} THEN 0 ELSE CHOOSE c \in up : \A d \in up : d <= c

ChapterDivs ==
    {c \in ByTag(html_content, "div") :
        Len(html_content[c].id) = 2 /\ html_content[c].id[1] = "cpt"}

SectionDivs == ByTag(html_content, "div") \cap SectionIds(html_content)

\* the title of a chapter or section container read from its own heading
\* paragraphs: those that are its children or the children of its eli-title
OwnTitle(word, div) ==
    LET own == {p \in DOMAIN html_content :
                  \/ html_content[p].parent = div
                  \/ /\ html_content[p].parent # 0
                     /\ html_content[html_content[p].parent].parent = div
                     /\ html_content[html_content[p].parent].cls = "eli-title"}
        heads == InOrder(html_content,
                         own \cap ByClass(html_content, "p", "oj-ti-section-1"))
        subs == InOrder(html_content,
                        own \cap ByClass(html_content, "p", "oj-ti-section-2"))
    IN  TitleWith(IF heads = <<>> THEN <<word>>
                  ELSE <<word, WS, _clean_text(get_text(html_content, heads[1]))[3]>>,
                  IF subs = <<>> THEN <<>>
                  ELSE _clean_text(get_text(html_content, subs[1])))

\* the path the containers of article element a give it
ContainerPath(a) ==
    LET chap == Encloser(a, ChapterDivs)
        sect == Encloser(a, SectionDivs)
    IN  IF ChapterDivs = {} THEN << <<"Enacting", WS, "Terms">> >>
        ELSE (IF chap = 0 THEN <<>> ELSE <<OwnTitle("CHAPTER", chap)>>)
               \o (IF sect = 0 THEN <<>> ELSE <<OwnTitle("SECTION", sect)>>)

\* C4: the path of every article chunk is the document title (if any), the
\* titles of the containers of the article, and the article's own title.
C4_ArticlePath ==
    FirstParseDone =>
        \A k \in ChunkIndices("article") :
            \A a \in ArticleElements :
                html_content[a].id = chunks[k].metadata.id =>
                    chunks[k].hierarchy_path =
                        WithRoot(regulation_title,
                                 ContainerPath(a) \o <<chunks[k].title>>)

\* the citation elements of the input (id cit_N)
CitationElements == find_all(html_content, 1, Subdivisions(html_content, "cit"))

\* the citation elements whose first oj-normal paragraph holds text
CitationsHoldingText ==
    SelectSeq(CitationElements,
        LAMBDA c :
            \E p \in ByClass(html_content, "p", "oj-normal") :
                /\ IsAncestor(html_content, c, p)
                /\ \A q \in ByClass(html_content, "p", "oj-normal") :
                      IsAncestor(html_content, c, q) => p <= q
                /\ \E j \in 1..Len(get_text(html_content, p)) :
                      get_text(html_content, p)[j] \notin {WS, NL})

\* C5 as stated: exactly one citation chunk, however many citation elements
\* there are, its citation_ids holding one entry for each of them.
C5_OneChunkAllIds ==
    FirstParseDone =>
        /\ Cardinality(ChunkIndices("citation")) = 1
        /\ \A k \in ChunkIndices("citation") :
              Len(chunks[k].metadata.citation_ids) = Len(CitationElements)

\* C5 amended: at most one citation chunk; there is one exactly when some
\* citation element's first oj-normal paragraph holds text, and its
\* citation_ids lists the ids of those elements, in document order.
C5_OneChunkIdsWithText ==
    FirstParseDone =>
        /\ Cardinality(ChunkIndices("citation")) =
              IF CitationsHoldingText # <<>> THEN 1 ELSE 0
        /\ \A k \in ChunkIndices("citation") :
              chunks[k].metadata.citation_ids =
                  [j \in 1..Len(CitationsHoldingText) |->
                      html_content[CitationsHoldingText[j]].id]

C5_Witness ==
    /\ FirstParseDone
    /\ Len(CitationElements) = MaxCit
    /\ Len(CitationsHoldingText) = 1
    /\ ChunkIndices("citation") # {}

\* the recital elements of the input (id rct_N)
RecitalElements == Subdivisions(html_content, "rct")

\* the text of the marker cell of a recital element: the first cell of its
\* table (empty when it has none)
MarkerText(r) ==
    LET cells == find_all(html_content, r, ByTag(html_content, "td"))
    IN  IF cells = <<>> THEN <<>>
        ELSE _clean_text(get_text(html_content,
                find(html_content, cells[1], ByTag(html_content, "p"))))

\* C6: a recital element whose marker cell reads "(N)" has exactly one
\* recital chunk, numbered N; one whose marker does not match has none.
C6_RecitalChunks ==
    FirstParseDone =>
        \A r \in RecitalElements :
            LET mine == ChunksOfId(html_content[r].id) \cap ChunkIndices("recital")
            IN  IF RecitalMatch(MarkerText(r))
                THEN /\ Cardinality(mine) = 1
                     /\ \A k \in mine : chunks[k].number = <<MarkerText(r)[2]>>
                ELSE mine = {}

TitleContainers == ByClass(html_content, "div", "eli-main-title")

\* C7 as stated: after the first parse there is one title chunk if the input
\* has a main-title container, none if it has not.
C7_TitleIffContainer ==
    FirstParseDone =>
        Cardinality(ChunkIndices("title")) = IF TitleContainers # {} THEN 1 ELSE 0

\* C7 amended: after the first parse there is one title chunk if the first
\* main-title container of the input holds an oj-doc-ti paragraph, none
\* otherwise.
C7_TitleIffHeading ==
    FirstParseDone =>
        Cardinality(ChunkIndices("title")) =
            IF /\ TitleContainers # {}
               /\ \E p \in ByClass(html_content, "p", "oj-doc-ti") :
                     IsAncestor(html_content, Min(TitleContainers), p)
            THEN 1 ELSE 0

C7_Witness ==
    /\ FirstParseDone
    /\ TitleContainers # {}
    /\ ChunkIndices("title") # {}
    /\ chunks[Min(ChunkIndices("title"))].title = <<>>

\* C8: for a container with detected part or section headings there is one
\* chunk for each detected heading, all of them part chunks, and no chunk of
\* the whole container.
C8_PartsExclusive ==
    FirstParseDone =>
        \A a \in ByClass(html_content, "div", "eli-container")
                    \cap IdStarts(html_content, "anx") :
            PartsDetected(html_content, a) # <<>> =>
                /\ Cardinality(ChunksOfId(html_content[a].id)) =
                      Len(PartsDetected(html_content, a))
                /\ \A k \in ChunksOfId(html_content[a].id) : IsPartChunk(chunks[k])

C8_Witness ==
    /\ FirstParseDone
    /\ \E a \in ByClass(html_content, "div", "eli-container")
                    \cap IdStarts(html_content, "anx") :
          /\ Len(PartsDetected(html_content, a)) = MaxHead
          /\ \E k \in ChunksOfId(html_content[a].id) : chunks[k].content = <<>>

HasBodyOrSubtitle(doc, a) ==
    \/ \E k \in DOMAIN doc :
          /\ IsAncestor(doc, a, k)
          /\ \E j \in 1..Len(doc[k].text) : doc[k].text[j] \notin {WS, NL}
          /\ ~(doc[k].tag = "p" /\ doc[k].cls = "oj-doc-ti")
          /\ \A t \in ByClass(doc, "p", "oj-doc-ti") : ~IsAncestor(doc, t, k)
    \/ \E t1, t2 \in ByClass(doc, "p", "oj-doc-ti") :
          /\ IsAncestor(doc, a, t1) /\ IsAncestor(doc, a, t2)
          /\ t1 < t2
          /\ \E j \in 1..Len(get_text(doc, t2)) :
                get_text(doc, t2)[j] \notin {WS, NL}

SectionTypesEmitted ==
    {"title", "preamble", "citation", "recital", "article", "annex",
     "appendix", "concluding_formulas"}

\* C10: every chunk has one of the eight emitted section types; none is a
\* chapter, a section or the enacting terms.
C10_EmittedTypes ==
    \A k \in 1..Len(chunks) : chunks[k].section_type \in SectionTypesEmitted

C10_Witness ==
    /\ FirstParseDone
    /\ ChunkIndices("article") # {}
    /\ \E s \in 1..Len(toc.sections) :
          /\ toc.sections[s].type = "enacting_terms"
          /\ \E c \in 1..Len(toc.sections[s].children) :
                toc.sections[s].children[c].type = "chapter"

\* the title of the input document: the cleaned text of the first oj-doc-ti
\* paragraph of its main-title container, empty if there is none
SourceTitle ==
    IF TitleContainers = {} THEN <<>>
    ELSE TextOf(html_content,
                find(html_content, Min(TitleContainers),
                     ByClass(html_content, "p", "oj-doc-ti")))

\* C11: when the document has a title, every chunk's hierarchy_path begins
\* with it; when it has none, no element of any path is the empty string.
C11_TitleIsRoot ==
    \A k \in 1..Len(chunks) :
        IF SourceTitle # <<>>
        THEN chunks[k].hierarchy_path[1] = SourceTitle
        ELSE \A i \in 1..Len(chunks[k].hierarchy_path) :
                chunks[k].hierarchy_path[i] # <<>>

\* the children of a TOC node (leaf nodes have no children key)
TocKids(node) == IF "children" \in DOMAIN node THEN node.children ELSE <<>>

\* the positions of the nodes of a TOC forest, as index paths
RECURSIVE TocIndexPaths(_)
TocIndexPaths(kids) ==
    UNION {{<<i>>} \cup {<<i>> \o q : q \in TocIndexPaths(TocKids(kids[i]))} :
              i \in 1..Len(kids)}

RECURSIVE TocNodeAt(_, _)
TocNodeAt(kids, ip) ==
    IF Len(ip) = 1 THEN kids[ip[1]]
    ELSE TocNodeAt(TocKids(kids[ip[1]]), Tail(ip))

\* the titles of the TOC nodes from a top-level section down to the node at ip
TocTitles(ip) ==
    [j \in 1..Len(ip) |-> TocNodeAt(toc.sections, SubSeq(ip, 1, j)).title]

\* the path re-derived from the TOC for the node at ip: the root title (if
\* the TOC has one) and the titles on the way down
TocPath(ip) == WithRoot(toc.title, TocTitles(ip))

\* the TOC nodes of chunk c: those of its type with its title or, for a part
\* chunk, the part nodes with its number under the container with its number
TocNodesOf(c) ==
    {ip \in TocIndexPaths(toc.sections) :
        LET node == TocNodeAt(toc.sections, ip)
        IN  IF IsPartChunk(c)
            THEN /\ Len(ip) = 2
                 /\ node.type \in {"part", "section"}
                 /\ toc.sections[ip[1]].type = c.section_type
                 /\ toc.sections[ip[1]].number \o <<".", node.number>> = c.number
            ELSE /\ node.type = c.section_type
                 /\ node.title = c.title}

\* C12 as stated: for every chunk with a TOC node, the path re-derived from
\* the TOC equals the chunk's hierarchy_path.
C12_TocPathIsChunkPath ==
    \A k \in 1..Len(chunks) : \A ip \in TocNodesOf(chunks[k]) :
        TocPath(ip) = chunks[k].hierarchy_path

\* C12 amended: the re-derived path equals the chunk's hierarchy_path, except
\* that for an article below a chapter node the chunk's path leaves out the
\* title of the enacting-terms node.
C12_TocPathButEnactingNode ==
    \A k \in 1..Len(chunks) : \A ip \in TocNodesOf(chunks[k]) :
        chunks[k].hierarchy_path =
            IF chunks[k].section_type = "article" /\ Len(ip) >= 3
            THEN WithRoot(toc.title, Tail(TocTitles(ip)))
            ELSE TocPath(ip)

C12_Witness ==
    /\ FirstParseDone
    /\ regulation_title # <<>>
    /\ \E k \in ChunkIndices("article") : \E ip \in TocNodesOf(chunks[k]) :
          Len(ip) = 4
    /\ \E k \in ChunkIndices("article") : \E ip \in TocNodesOf(chunks[k]) :
          Len(ip) = 3

\* C13: no recital, article, annex, appendix or annex-part chunk has the
\* empty string as content (an empty body falls back to the subtitle or the
\* chunk is omitted).
C13_NoEmptyContent ==
    \A k \in 1..Len(chunks) :
        chunks[k].section_type \in {"recital", "article", "annex", "appendix"}
            => chunks[k].content # <<>>

\* element e holds a paragraph of class cls with text
HoldsText(e, cls) ==
    \E p \in ByClass(html_content, "p", cls) :
        IsAncestor(html_content, e, p) /\ TextOf(html_content, p) # <<>>

\* the preamble container has an introductory paragraph with text before its
\* first citation
PreambleHasIntro ==
    \E d \in Subdivisions(html_content, "pbl") :
        \E p \in ByClass(html_content, "p", "oj-normal") :
            /\ html_content[p].parent = d
            /\ TextOf(html_content, p) # <<>>
            /\ \A c \in Subdivisions(html_content, "cit") :
                  html_content[c].parent = d => p < c

\* after a parse the elements that are present have been parsed, whatever
\* else is missing: the title heading, the preamble introduction, the
\* citations with text, the concluding formulas, the articles of a document
\* without chapters and the annex containers that hold text
ParsedWhatIsThere ==
    FirstParseDone =>
        /\ (\E c \in TitleContainers : HoldsText(c, "oj-doc-ti"))
              => ChunkIndices("title") # {}
        /\ PreambleHasIntro => ChunkIndices("preamble") # {}
        /\ (Subdivisions(html_content, "pbl") # {} /\ CitationsHoldingText # <<>>)
              => ChunkIndices("citation") # {}
        /\ (\E f \in Subdivisions(html_content, "fnp") : HoldsText(f, "oj-normal"))
              => ChunkIndices("concluding_formulas") # {}
        /\ ChapterDivs = {} =>
              \A a \in ArticleElements :
                  ChunksOfId(html_content[a].id) \cap ChunkIndices("article") # {}
        /\ \A k \in 1..Len(AnnexContainers(html_content)) :
              HoldsText(AnnexContainers(html_content)[k], "oj-normal")
                  => ChunksOfId(html_content[AnnexContainers(html_content)[k]].id) # {}

\* chunk list cs extends the chunk list so far
Extends(cs) == Len(cs) >= Len(chunks) /\ SubSeq(cs, 1, Len(chunks)) = chunks

\* the driver that is about to run returns: it yields a chunk list that
\* extends the one so far, and the loop over the annex containers stays
\* within the containers found
PendingDriverReturns ==
    /\ pc = "title" =>
          Extends(_parse_title(soup, chunks, toc, regulation_title).chunks)
    /\ pc = "preamble" =>
          Extends(_parse_preamble(soup, chunks, toc, regulation_title).chunks)
    /\ pc = "enacting_terms" =>
          Extends(_parse_enacting_terms(soup, chunks, toc, regulation_title,
                                        current_hierarchy).chunks)
    /\ pc = "concluding_formulas" =>
          Extends(_parse_concluding_formulas(soup, chunks, toc,
                                             regulation_title).chunks)
    /\ pc = "annexes" =>
          /\ annex_i \in 1..(Len(annexes) + 1)
          /\ annex_i <= Len(annexes) =>
                Extends(AnnexStep(soup, annexes[annex_i], chunks, toc,
                                  regulation_title).chunks)

LaterSteps(p) ==
    CASE p = "idle" -> {"idle", "title"}
      [] p = "title" -> {"preamble"}
      [] p = "preamble" -> {"enacting_terms"}
      [] p = "enacting_terms" -> {"concluding_formulas"}
      [] p = "concluding_formulas" -> {"annexes"}
      [] p = "annexes" -> {"annexes", "idle"}

\* the section types of the chunks a driver appends
DriverTypes(p) ==
    CASE p = "title" -> {"title"}
      [] p = "preamble" -> {"preamble", "citation", "recital"}
      [] p = "enacting_terms" -> {"article"}
      [] p = "concluding_formulas" -> {"concluding_formulas"}
      [] p = "annexes" -> {"annex", "appendix"}
      [] OTHER -> {}

\* the position of a chunk's driver in the order of parse()
DriverRank(type) ==
    CASE type = "title" -> 1
      [] type \in {"preamble", "citation", "recital"} -> 2
      [] type = "article" -> 3
      [] type = "concluding_formulas" -> 4
      [] type \in {"annex", "appendix"} -> 5

\* C15: every step of parse() hands over to the next driver in the order
\* title, preamble, enacting terms, concluding formulas, annexes (none runs
\* twice or after a later one), each driver only appends chunks of its own
\* types, and in the chunk list of a single parse the chunks are ordered by
\* driver.
C15_DriverOrder ==
    /\ [][ /\ pc' \in LaterSteps(pc)
           /\ Len(chunks') >= Len(chunks)
           /\ SubSeq(chunks', 1, Len(chunks)) = chunks
           /\ \A k \in (Len(chunks) + 1)..Len(chunks') :
                 chunks'[k].section_type \in DriverTypes(pc) ]_vars
    /\ [](calls = 0 \/ FirstParseDone =>
            \A i, j \in 1..Len(chunks) :
                i < j => DriverRank(chunks[i].section_type)
                           <= DriverRank(chunks[j].section_type))

C15_Witness ==
    /\ FirstParseDone
    /\ \A type \in {"title", "preamble", "citation", "recital", "article",
                      "concluding_formulas", "annex"} :
          ChunkIndices(type) # {}

\* k copies of sequence q, one after the other
RECURSIVE Copies(_, _)
Copies(q, k) == IF k = 0 THEN <<>> ELSE q \o Copies(q, k - 1)

\* C16: after k returns of parse() on one instance the chunk list is k
\* copies of the chunk list of a single parse and toc['sections'] is k
\* copies of the sections of a single parse; the chunk list is never
\* replaced, every step keeps what it held and appends to it.
C16_ParsesAccumulate ==
    /\ [](pc = "idle" =>
            /\ chunks = Copies(ParseOnce(html_content).chunks, calls)
            /\ toc.sections = Copies(ParseOnce(html_content).toc.sections, calls))
    /\ [][ /\ Len(chunks') >= Len(chunks)
           /\ SubSeq(chunks', 1, Len(chunks)) = chunks
           /\ Len(toc'.sections) >= Len(toc.sections)
           /\ SubSeq(toc'.sections, 1, Len(toc.sections)) = toc.sections ]_vars

C16_Witness ==
    /\ pc = "idle"
    /\ calls = 2
    /\ Len(chunks) >= 4
    /\ Len(toc.sections) >= 4

\* a line that is a list marker '(x)' and nothing else
BareMarker(line) ==
    /\ Len(line) = 3
    /\ line[1] = "(" /\ line[3] = ")"
    /\ line[2] \in LowerToks \cup LetterToks \cup RomanToks \cup DigitToks

\* C17: no line of the content of a chunk for an annex or appendix without
\* parts is a bare list marker '(x)': every marker is on one line with the
\* text that follows it.
C17_NoBareMarkerLine ==
    \A k \in ChunkIndices("annex") \cup ChunkIndices("appendix") :
        ~IsPartChunk(chunks[k]) =>
            \A j \in 1..Len(SplitLines(chunks[k].content)) :
                ~BareMarker(SplitLines(chunks[k].content)[j])

\* the JSON text of one chunk's to_dict()
ChunkJson(chunk) == json_dumps(PyDict(to_dict(chunk)))

\* C18: to_dict() of every chunk has exactly the keys section_type, number,
\* title, content, hierarchy_path and metadata, its section_type is the
\* string value of the enum member, and encoding it as JSON, decoding and
\* encoding again gives the same JSON, for each chunk and for the file
\* save_chunks writes.
C18_ToDictRoundTrip ==
    /\ \A k \in 1..Len(chunks) :
          /\ DOMAIN to_dict(chunks[k]) =
                {"section_type", "number", "title", "content",
                 "hierarchy_path", "metadata"}
          /\ to_dict(chunks[k]).section_type =
                PyStr(SectionTypeValue(chunks[k].section_type))
          /\ ChunkJson(chunks[k]) # TypeError
          /\ json_dumps(json_loads(ChunkJson(chunks[k]))) = ChunkJson(chunks[k])
    /\ chunks_file # NoFile =>
          /\ chunks_file # TypeError
          /\ json_dumps(json_loads(chunks_file)) = chunks_file

C18_Witness ==
    /\ chunks_file # NoFile
    /\ chunks_file = save_chunks(chunks)
    /\ ChunkIndices("citation") # {}
    /\ ChunkIndices("article") # {}
    /\ \E k \in 1..Len(chunks) : chunks[k].number = NoneVal

\* C19: parse_document returns 0 exactly when reading, parsing and (unless
\* no_save) saving completed without an exception, and 1 when the input
\* file does not exist or an exception was raised; every exception ends in
\* the handler; with no_save nothing is written.
C19_ReturnCodes ==
    /\ cli_pc \in {"start", "parse", "save", "except", "return", "done"}
    /\ raised => cli_pc \in {"except", "done"}
    /\ args.no_save => files = {}
    /\ cli_pc = "done" =>
          /\ rc \in {0, 1}
          /\ rc = 1 <=> (raised \/ (args.input = "file" /\ ~path_exists))
          /\ rc = 0 <=>
                /\ ~raised
                /\ parsed.done
                /\ args.no_save \/ {"chunks", "toc"} \subseteq files

C19_Witness ==
    /\ cli_pc = "done"
    /\ rc = 1
    /\ raised
    /\ ~args.no_save
    /\ parsed.done
    /\ Len(parsed.chunks) >= 4
    /\ "chunks" \in files

\* the results of v are all valid
EveryValid(results) == \A i \in 1..Len(results) : results[i].valid

\* the questions whose result is valid, in order
ValidOnes(questions, results) ==
    SelectSeq([i \in 1..Len(questions) |->
                  IF results[i].valid THEN questions[i] ELSE "None"],
              Truthy)

\* the facts C20 states of a state after _validate_questions
ValidationFacts(s) ==
    /\ s.validation_results # None
    /\ Len(s.validation_results[1]) = Len(QuestionsToValidate(s))
    /\ \A i \in 1..Len(s.validation_results[1]) :
          HasValid(s.validation_results[1][i])
    /\ s.all_valid = Some(/\ s.validation_results[1] # <<>>
                          /\ EveryValid(s.validation_results[1]))
    /\ s.final_questions =
          ValidOnes(QuestionsToValidate(s), s.validation_results[1])

\* C20 as stated: after _validate_questions, validation_results has one
\* entry for each question, all_valid says whether every entry is valid
\* (false without questions), final_questions holds the questions with a
\* valid result, in order, and current_step is 'validate_questions'.
C20_ValidationResult ==
    validations >= 1 =>
        /\ state.current_step = "validate_questions"
        /\ ValidationFacts(state)

\* C20 amended: current_step is 'validate_questions' after every run; the
\* other facts hold after a run in which the validator returned a result
\* with a "valid" key for every question (no error recorded); a run in
\* which validate_batch raised or a result lacks the key appends one error
\* and leaves final_questions as it was.
C20_ValidationResultUnlessError ==
    [][ validations' = validations + 1 =>
          /\ state'.current_step = "validate_questions"
          /\ IF state'.errors = state.errors
             THEN ValidationFacts(state')
             ELSE /\ state'.errors = Append(state.errors, "Validation error")
                  /\ state'.final_questions = state.final_questions ]_vars

C20_Witness ==
    /\ validations = 1
    /\ state.errors = <<>>
    /\ QuestionsToValidate(state) = <<"Q1", "Q2">>
    /\ state.validation_results # None
    /\ state.validation_results[1][1].valid
    /\ ~state.validation_results[1][2].valid
    /\ state.all_valid = Some(FALSE)
    /\ state.final_questions = <<"Q1">>

\* a question of a list carries generator and model metadata
CarriesMetadata(q) ==
    /\ q \in QuestionNames
    /\ ~LacksGenerator(heap[q])
    /\ heap[q].model # None

\* C21: after _judge_questions, in every state in which judge_decision is
\* set to one of the four decisions, final_questions is the selection the
\* decision names (accept_both: [conceptual, practical]; accept_conceptual:
\* [conceptual]; accept_practical: [practical]; reject_both: []), with the
\* refined version of a question when there is one, and every listed
\* question carries generator and model metadata, also when one of the two
\* questions was never generated.
C21_FinalIsJudgeSelection ==
    (/\ runs["judge_questions"] > 0
     /\ state.judge_decision # None
     /\ state.judge_decision[1] \in Decisions)
      => /\ state.final_questions =
               Selection(state.judge_decision[1], Conceptual(state),
                         Practical(state))
         /\ \A i \in 1..Len(state.final_questions) :
               CarriesMetadata(state.final_questions[i])

\* the pieces of source text of the body of article element a: the text of
\* each paragraph of the article other than its heading and its subtitle
BodyPieces(a) ==
    {TextOf(html_content, p) :
        p \in {k \in ByTag(html_content, "p") :
                  /\ IsAncestor(html_content, a, k)
                  /\ html_content[k].cls \notin {"oj-ti-art", "oj-sti-art"}
                  /\ TextOf(html_content, k) # <<>>}}

\* how many times piece occurs in text
Occurrences(piece, text) ==
    Cardinality({i \in 1..(Len(text) - Len(piece) + 1) :
                    SubSeq(text, i, i + Len(piece) - 1) = piece})

\* C22: the content assembled for an article holds each piece of the
\* article's source text exactly once, also when the layout patterns
\* co-occur or nest (a table inside a numbered sub-paragraph container, a
\* table nested inside a table cell): nothing is emitted twice.
C22_EachPieceOnce ==
    FirstParseDone =>
        \A a \in ArticleElements :
            \A k \in ChunksOfId(html_content[a].id) \cap ChunkIndices("article") :
                \A piece \in BodyPieces(a) :
                    Occurrences(piece, chunks[k].content) = 1

\* the pieces of source text of container a located at or after element e
\* and nowhere before it: the text of each paragraph from e on that is not
\* also the text of an earlier paragraph
PiecesFrom(a, e) ==
    {TextOf(html_content, p) :
        p \in {k \in ByTag(html_content, "p") :
                  /\ IsAncestor(html_content, a, k)
                  /\ k >= e
                  /\ TextOf(html_content, k) # <<>>}}
      \ {TextOf(html_content, p) :
            p \in {k \in ByTag(html_content, "p") :
                      IsAncestor(html_content, a, k) /\ k < e}}

\* the chunks emitted for the heading with title part_title of the
\* container with the given id
PartChunksOf(id, part_title) ==
    {k \in ChunksOfId(id) :
        IsPartChunk(chunks[k]) /\ Last(chunks[k].hierarchy_path) = part_title}

\* C23: in an annex with detected parts, the content of the chunk for a
\* heading holds only text located between that heading and the next
\* detected heading (or the end of the annex): no later heading and no text
\* of a later part is in an earlier part's chunk, however the headings are
\* nested in the markup.
C23_PartContentStopsAtNextHeading ==
    FirstParseDone =>
        \A a \in {AnnexContainers(html_content)[n] :
                      n \in 1..Len(AnnexContainers(html_content))} :
            \A i, j \in 1..Len(PartsDetected(html_content, a)) :
                i < j =>
                    \A k \in PartChunksOf(html_content[a].id,
                                 PartsDetected(html_content, a)[i].title) :
                        \A piece \in PiecesFrom(a,
                                 PartsDetected(html_content, a)[j].element) :
                            Occurrences(piece, chunks[k].content) = 0

\* the text with every list-marker break "(x)\n\n" rewritten to "(x) " and
\* every bare numbered marker "N.\n\n" (a paragraph of its own: at the start
\* of the text or after "\n\n") rewritten to "N. ", and nothing else changed
RECURSIVE RewriteAll(_, _)
RewriteAll(t, bare) ==
    IF t = <<>> THEN <<>>
    ELSE IF /\ Len(t) >= 4
            /\ t[1] = "(" /\ t[2] \in LowerToks /\ t[3] = ")" /\ t[4] = NL2
    THEN <<"(", t[2], ")", WS>> \o RewriteAll(SubSeq(t, 5, Len(t)), FALSE)
    ELSE IF /\ bare
            /\ Len(t) >= 3
            /\ t[1] \in DigitToks /\ t[2] = "." /\ t[3] = NL2
    THEN <<t[1], ".", WS>> \o RewriteAll(SubSeq(t, 4, Len(t)), TRUE)
    ELSE <<t[1]>> \o RewriteAll(Tail(t), t[1] = NL2)

\* C24: _clean_combined_text rewrites every list-marker break '(x)\n\n' to
\* '(x) ' and every bare numbered marker 'N.\n\n' to 'N. ', at every
\* position of the text, its very start included, and changes nothing else;
\* applying it twice gives what applying it once gives.
C24_CleanCombinedRewritesEveryMarker ==
    FirstParseDone =>
        \A a \in ArticleElements :
            \A k \in ChunksOfId(html_content[a].id) \cap ChunkIndices("article") :
                Join(<<NL2>>, ArticleContentParts(html_content, a)) # <<>> =>
                    /\ chunks[k].content =
                          RewriteAll(Join(<<NL2>>,
                                          ArticleContentParts(html_content, a)),
                                     TRUE)
                    /\ _clean_combined_text(chunks[k].content) = chunks[k].content

\* sequence a is the start of sequence b
IsPrefix(a, b) == Len(a) <= Len(b) /\ SubSeq(b, 1, Len(a)) = a

\* C25: the chunk list and toc['sections'] are append-only: every step of
\* every driver leaves each element the lists held at its position with its
\* value, so that in the middle of any parse the lists are the start of what
\* the completed parses give; nothing emitted is modified, moved or removed.
C25_ListsAppendOnly ==
    /\ [][ /\ \A k \in 1..Len(chunks) :
                  k <= Len(chunks') /\ chunks'[k] = chunks[k]
           /\ \A k \in 1..Len(toc.sections) :
                  k <= Len(toc'.sections) /\ toc'.sections[k] = toc.sections[k] ]_vars
    /\ [](pc # "idle" =>
            /\ IsPrefix(chunks, Copies(ParseOnce(html_content).chunks, calls + 1))
            /\ IsPrefix(toc.sections,
                        Copies(ParseOnce(html_content).toc.sections, calls + 1)))

\* the second parse is in the annex loop, past its first container, and
\* the lists hold the first parse's elements and more
C25_Witness ==
    /\ pc = "annexes"
    /\ calls = 1
    /\ annex_i >= 2
    /\ Len(annexes) >= 1
    /\ Len(chunks) > Len(ParseOnce(html_content).chunks) + 1
    /\ Len(toc.sections) > Len(ParseOnce(html_content).toc.sections) + 1

\* the values the human_action key can hold
HumanActions == {None, Some("accept"), Some("reject"), Some("improve")}

\* app.invoke has returned or raised
RunEnded == graph_pc \in {"END", "raised"}

\* how far a run has come: the position in the graph, and in the generators'
\* step the number of generators that have returned
Progress(at, w) ==
    CASE at = "parallel_start" -> 0
      [] at = "generate" -> 1 + Cardinality({n \in DOMAIN w : w[n] # None})
      [] at = "validate_questions" -> 4
      [] at = "refine_questions" -> 5
      [] at = "judge_questions" -> 6
      [] at = "await_human_feedback" -> 7
      [] OTHER -> 8

\* the node the run is at returns
PendingNodeReturns ==
    /\ graph_pc = "validate_questions" => _validate_questions(state) # {}
    /\ graph_pc = "refine_questions" => _refine_questions(state, heap) # {}
    /\ graph_pc = "judge_questions" => _judge_questions(state, heap) # {}
    /\ graph_pc = "await_human_feedback" =>
          EdgeOf(_route_after_human_feedback(_await_human_feedback(state))) = "END"

\* C26: every run of the graph ends: the node a run is at always returns
\* and every step takes the run strictly forward through the graph; the
\* routing function sends 'accept', 'reject' and a missing action to END
\* and only 'improve' back to parallel_start; _await_human_feedback sets
\* 'accept' exactly when all_valid is true and 'reject' otherwise, so the
\* improve edge is never taken and every node runs at most once in a run.
C26_RunTerminates ==
    /\ [](\A a \in HumanActions :
             EdgeOf(_route_after_human_feedback([state EXCEPT !.human_action = a]))
               = IF a = Some("improve") THEN "parallel_start" ELSE "END")
    /\ [](runs["await_human_feedback"] >= 1 =>
             state.human_action = IF state.all_valid = Some(TRUE)
                                  THEN Some("accept") ELSE Some("reject"))
    /\ [](\A n \in Nodes : runs[n] <= 1)
    /\ [](graph_pc = "parallel_start" => \A n \in Nodes : runs[n] = 0)
    /\ []PendingNodeReturns
    /\ [][Progress(graph_pc', writes') > Progress(graph_pc, writes)]_vars

\* a run that ended behind await_human_feedback with questions that were
\* not all valid, every node having run once
C26_Witness ==
    /\ graph_pc = "END"
    /\ state.all_valid # Some(TRUE)
    /\ state.human_action = Some("reject")
    /\ \A n \in Nodes : runs[n] = 1

\* both generators have failed in this run
BothGeneratorsFailed ==
    /\ runs["generate_conceptual"] >= 1
    /\ runs["generate_practical"] >= 1
    /\ writes.generate_conceptual = None
    /\ writes.generate_practical = None
    /\ state.conceptual_qa = "None"
    /\ state.practical_qa = "None"

\* C27: the generators run as parallel branches from parallel_start that
\* join at validate_questions; when both fail in one run, the run still
\* reaches validate_questions and goes on to its end, and the errors list
\* holds the conceptual and the practical generation error message: neither
\* of the two writes to errors is lost or refused.
C27_BothGenerationErrorsKept ==
    /\ graph_pc = "generate" =>
          /\ runs["parallel_start"] = 1
          /\ runs["validate_questions"] = 0
    /\ runs["validate_questions"] >= 1 =>
          /\ runs["generate_conceptual"] >= 1
          /\ runs["generate_practical"] >= 1
    /\ BothGeneratorsFailed =>
          /\ graph_pc # "raised"
          /\ \E i, j \in 1..Len(state.errors) :
                /\ state.errors[i] = "Conceptual generation error"
                /\ state.errors[j] = "Practical generation error"

\* the questions _judge_questions hands to the judge, conceptual before
\* practical, those that are there
QuestionsJudged(s) ==
    (IF Truthy(Conceptual(s)) THEN <<Conceptual(s)>> ELSE <<>>)
      \o (IF Truthy(Practical(s)) THEN <<Practical(s)>> ELSE <<>>)

\* C28: whenever the judge is invoked, validation_results describe the
\* question versions it is given (the refined one where one was stored,
\* otherwise the original), in the same order: the i-th result is the
\* validation of the i-th question, also when refinement or re-validation
\* failed part-way.
C28_ResultsDescribeJudgedQuestions ==
    graph_pc = "judge_questions" =>
        /\ state.validation_results # None
        /\ Len(state.validation_results[1]) = Len(QuestionsJudged(state))
        /\ \A i \in 1..Len(QuestionsJudged(state)) :
              state.validation_results[1][i].qa = QuestionsJudged(state)[i]

\* a run of the graph has come to its end behind await_human_feedback
RunReturned == graph_pc = "END"

\* C29 as stated: a run ends with human_action 'accept' only if the judge
\* accepted a question (final_questions is not empty and judge_decision is
\* not 'reject_both'), and with 'reject' only if final_questions is empty.
C29_AcceptOnlyIfJudgeAccepted ==
    RunReturned =>
        /\ state.human_action = Some("accept") =>
              /\ state.final_questions # <<>>
              /\ state.judge_decision # Some("reject_both")
        /\ state.human_action = Some("reject") =>
              state.final_questions = <<>>

\* C29 amended: a run ends with human_action 'accept' exactly when
\* all_valid is true and with 'reject' otherwise, whatever the judge
\* decided and whatever final_questions holds.
C29_AcceptIffAllValid ==
    RunReturned =>
        /\ state.human_action \in {Some("accept"), Some("reject")}
        /\ state.human_action = Some("accept") <=> state.all_valid = Some(TRUE)

\* a run accepted though the judge rejected both questions
C29_Witness ==
    /\ RunReturned
    /\ state.human_action = Some("accept")
    /\ state.all_valid = Some(TRUE)
    /\ state.judge_decision = Some("reject_both")
    /\ state.final_questions = <<>>

\* the chunks emitted for the annex/appendix container with this id
ContainerChunks(id) ==
    SelectSeq(chunks, LAMBDA c : /\ c.section_type \in {"annex", "appendix"}
                                 /\ c.metadata.id = id)

\* the chunks a container gives when it is processed on the markup as it
\* was in the source
ChunksFromSource(annex_div) ==
    AnnexStep(html_content, annex_div, <<>>, EmptyToc, regulation_title).chunks

SameText(a, b) ==
    /\ a.title = b.title
    /\ a.content = b.content
    /\ a.hierarchy_path = b.hierarchy_path

\* C30: processing one annex/appendix container leaves every other one
\* unchanged: the title, content and hierarchy_path of the chunks emitted
\* for a container are those its own markup in the source gives, whether or
\* not another container (the annex an appendix is nested in) was processed
\* before it and had its title paragraphs removed from the tree.
C30_ContainersIndependent ==
    FirstParseDone =>
        \A n \in 1..Len(AnnexContainers(html_content)) :
            \E annex_div \in {AnnexContainers(html_content)[n]} :
                /\ Len(ContainerChunks(html_content[annex_div].id))
                      = Len(ChunksFromSource(annex_div))
                /\ \A k \in 1..Len(ChunksFromSource(annex_div)) :
                      SameText(ContainerChunks(html_content[annex_div].id)[k],
                               ChunksFromSource(annex_div)[k])

=============================================================================
